---- MODULE Spec2Model ----
(***************************************************************************)
(* ACP checkout protocol engine: the seller router of                      *)
(* acp_framework/seller.py (API-version check, idempotency ledger, the     *)
(* four mutating checkout routes) wired to the WayfairSellerAdapter of     *)
(* services/seller/main.py (session store, pricing, orders, webhooks).     *)
(*                                                                         *)
(* Spec     : requests are handled one at a time (each handler is one      *)
(*            atomic action).                                              *)
(* ConcSpec : requests are asyncio tasks that interleave at the handler's  *)
(*            await points (lookup | database read | commit | each         *)
(*            notification | store).                                       *)
(* GateSpec : Spec under every configuration of require_auth and of the    *)
(*            signing secret, with requests failing each check.            *)
(* PspSpec  : the delegate-payment endpoint of services/psp/main.py with   *)
(*            the provider of acp_framework/payment.py.                    *)
(* CatalogSpec : the compare endpoint of services/seller/main.py and the   *)
(*            audit log it writes.                                         *)
(* TaxSpec  : sessions created from every cart of a few line items.        *)
(* PriceSpec : Spec on one cart while the ingestion pipeline of            *)
(*            services/pipeline/activities.py reloads the products table.  *)
(* HashSpec : create requests as JSON bodies, parsed into the request      *)
(*            model before they are hashed.                                *)
(***************************************************************************)
EXTENDS Integers, Sequences, FiniteSets, TLC

\* ------------------------------------------------------------------ bounds
\* Number of requests handled in one behaviour.
MaxOps == 3
\* Number of session ids the clients may name (ids 1..MaxSessions).
MaxSessions == 2
\* Number of requests in flight together in ConcSpec.
MaxTasks == 2
\* Number of compare requests in one behaviour of CatalogSpec.
MaxCompares == 2
\* Longest product_ids list a compare request carries (one past max_length).
MaxProductIds == 5
\* Longest cart and largest quantity of an item in TaxSpec.
MaxLineItems == 3
MaxQuantity == 3

\* ------------------------------------------------------- values and inputs
\* Python None, for the string-valued optionals (headers, address, option id).
None == "None"
\* The empty dict stored in the buyer column when a session has no buyer.
EmptyDict == "{}"

\* Python truthiness of an optional string or dict: None, "" and {} are falsy.
Truthy(v) == v \notin {None, "", EmptyDict}

\* math.ceil(n * TAX_RATE) with TAX_RATE = 0.08; on the amounts that occur the
\* float product rounds to the exact ceiling of 8n/100.
TAX_RATE_NUM == 8
TAX_RATE_DEN == 100
\* Variant: the tax is rounded down.
CeilTax_Floor(n) == (n * TAX_RATE_NUM) \div TAX_RATE_DEN

CeilTax(n) == (n * TAX_RATE_NUM + TAX_RATE_DEN - 1) \div TAX_RATE_DEN

\* The products table: product id -> row.
VARIABLE products

\* The products table when the service starts: p1 and p2 are in stock, p3 is
\* out of stock, any other id (px) has no row.
LoadedProducts ==
    ("p1" :> [price_cents |-> 1000, in_stock |-> TRUE]) @@
    ("p2" :> [price_cents |-> 105, in_stock |-> TRUE]) @@
    ("p3" :> [price_cents |-> 500, in_stock |-> FALSE])

\* The rows a later catalog snapshot transforms to: p1 has a new price, and
\* every row is loaded with in_stock = True.
ReloadedProducts ==
    ("p1" :> [price_cents |-> 1200, in_stock |-> TRUE]) @@
    ("p2" :> [price_cents |-> 105, in_stock |-> TRUE]) @@
    ("p3" :> [price_cents |-> 500, in_stock |-> TRUE])

\* The products table as a request finds it.
Catalog == products

Item(id, quantity) == [id |-> id, quantity |-> quantity]

\* Item lists a request body may carry (create requires at least one item).
ItemLists ==
    { <<Item("p1", 2)>>,
      <<Item("p1", 1), Item("p2", 1), Item("p2", 1)>>,
      <<Item("p1", 1), Item("p3", 1)>>,
      <<Item("px", 1)>> }

Addresses == {"A1"}
Buyers == {"B1"}
OptionIds == {"", "ship_std", "bogus"}
Tokens == {"tok_ok", "decline_token"}
SessionIds == 1..MaxSessions

\* Idempotency-Key and Request-Id headers of a request: absent (None), empty,
\* or set.
HeaderPairs == { <<None, None>>, <<"", None>>, <<"k1", None>>, <<"k1", "r1">> }

SUPPORTED_API_VERSIONS == {"2026-01-30"}
BadApiVersions == {None, "2020-01-01"}

\* Request bodies after validation (model_dump).  An Optional[list[Item]] is
\* {} for None and {l} for the list l.
CreateBody(buyer, items, fulfillment_address) ==
    [buyer |-> buyer, items |-> items, fulfillment_address |-> fulfillment_address]

CreateBodies ==
    {CreateBody(None, l, None) : l \in ItemLists}
    \cup {CreateBody(None, <<Item("p1", 2)>>, a) : a \in Addresses}
    \cup {CreateBody(b, <<Item("p1", 1), Item("p2", 1), Item("p2", 1)>>, a) : b \in Buyers, a \in Addresses}

UpdateBody(buyer, items, fulfillment_address, fulfillment_option_id) ==
    [buyer |-> buyer, items |-> items, fulfillment_address |-> fulfillment_address, fulfillment_option_id |-> fulfillment_option_id]

UpdateBodies ==
    {UpdateBody(None, {}, None, None), UpdateBody(None, {<< >>}, None, None)}
    \cup {UpdateBody(b, {}, None, None) : b \in Buyers}
    \cup {UpdateBody(None, {l}, None, None) : l \in ItemLists \ {<<Item("p1", 2)>>, <<Item("px", 1)>>}}
    \cup {UpdateBody(None, {}, a, None) : a \in Addresses}
    \cup {UpdateBody(None, {}, None, o) : o \in OptionIds}
    \cup {UpdateBody(None, {}, a, "ship_std") : a \in Addresses}

CompleteBodies == {[payment_data |-> [token |-> t, provider |-> "stripe"]] : t \in Tokens}

NoBody == << >>

\* The bodies that are also sent with an Idempotency-Key: per route two bodies
\* the adapter accepts and, where there is one, a body it refuses.
KeyedCreateBodies ==
    {CreateBody(None, <<Item("p1", 2)>>, None), CreateBody(None, <<Item("p1", 1), Item("p3", 1)>>, None)}
    \cup {CreateBody(None, <<Item("p1", 2)>>, a) : a \in Addresses}

KeyedUpdateBodies ==
    {UpdateBody(None, {}, None, None), UpdateBody(None, {<<Item("p1", 1), Item("p3", 1)>>}, None, None)}
    \cup {UpdateBody(None, {}, a, "ship_std") : a \in Addresses}

\* ---------------------------------------------------------- error objects
ACPSellerError(status_code, error_type, code, message, param) ==
    [status_code |-> status_code,
     body |-> [error |-> [type |-> error_type, code |-> code,
                          message |-> message, param |-> param]]]

Raise(error) == [raised |-> TRUE, error |-> error]

\* ------------------------------------------------------------ pricing
_get_fulfillment_options ==
    << [id |-> "ship_std", subtotal |-> 799, tax |-> CeilTax(799),
        total |-> 799 + CeilTax(799)],
       [id |-> "ship_exp", subtotal |-> 1499, tax |-> CeilTax(1499),
        total |-> 1499 + CeilTax(1499)] >>

\* Variant: only the existence of the product is checked.
Unavailable_MissingOnly(item_data) == item_data.id \notin DOMAIN Catalog

\* The product lookup of the item loop: no row, or a row that is not in stock.
Unavailable(item_data) ==
    \/ item_data.id \notin DOMAIN Catalog
    \/ ~Catalog[item_data.id].in_stock

OutOfStockError(item_data) ==
    IF item_data.id \notin DOMAIN Catalog
    THEN ACPSellerError(409, "invalid_request", "out_of_stock",
                        <<"Product", item_data.id, "is not available">>, "$.items")
    ELSE ACPSellerError(409, "invalid_request", "out_of_stock",
                        <<"Product", item_data.id, "is out of stock">>, "$.items")

\* One LineItem of the loop body.
LineItem(item_data) ==
    LET product == Catalog[item_data.id]
        qty == item_data.quantity
        base == product.price_cents * qty
        tax == CeilTax(base)
    IN [id |-> <<"li_", item_data.id>>,
        item |-> [id |-> item_data.id, quantity |-> qty],
        base_amount |-> base,
        discount |-> 0,
        subtotal |-> base,
        tax |-> tax,
        total |-> base + tax]

RECURSIVE SumBase(_)
SumBase(line_items) ==
    IF line_items = <<>> THEN 0
    ELSE Head(line_items).base_amount + SumBase(Tail(line_items))

\* fulfillment_total: the total of the first offered option with the given id,
\* 0 when the id is falsy or names no offered option.
FulfillmentTotal(fulfillment_option_id) ==
    LET opts == _get_fulfillment_options
        hits == {i \in 1..Len(opts) : opts[i].id = fulfillment_option_id}
    IN IF Truthy(fulfillment_option_id) /\ hits # {}
       THEN opts[CHOOSE i \in hits : \A j \in hits : i <= j].total
       ELSE 0

Total(type, amount) == [type |-> type, amount |-> amount]

\* Variant: the fulfillment entry is always listed.
Totals_AlwaysFulfillment(subtotal, tax_total, fulfillment_total) ==
    << Total("items_base_amount", subtotal),
       Total("subtotal", subtotal),
       Total("tax", tax_total),
       Total("fulfillment", fulfillment_total),
       Total("total", subtotal + tax_total + fulfillment_total) >>

Totals(subtotal, tax_total, fulfillment_total) ==
    << Total("items_base_amount", subtotal),
       Total("subtotal", subtotal),
       Total("tax", tax_total) >>
    \o (IF fulfillment_total # 0
        THEN << Total("fulfillment", fulfillment_total) >> ELSE << >>)
    \o << Total("total", subtotal + tax_total + fulfillment_total) >>

\* WayfairSellerAdapter._build_session: the CheckoutSession, or out_of_stock
\* raised at the first item that has no product or is not in stock.  The
\* constant fields of the session (currency, payment_provider, capabilities,
\* fulfillment_options, messages, links) are left out.
_build_session(session_id, items, status, buyer, fulfillment_address, fulfillment_option_id) ==
    LET bad == {i \in 1..Len(items) : Unavailable(items[i])}
    IN IF bad # {}
       THEN Raise(OutOfStockError(items[CHOOSE i \in bad : \A j \in bad : i <= j]))
       ELSE LET line_items == [i \in 1..Len(items) |-> LineItem(items[i])]
                subtotal == SumBase(line_items)
                tax_total == CeilTax(subtotal)
                fulfillment_total == FulfillmentTotal(fulfillment_option_id)
            IN [raised |-> FALSE,
                value |->
                  [id |-> session_id,
                   buyer |-> IF Truthy(buyer) THEN buyer ELSE None,
                   status |-> status,
                   line_items |-> line_items,
                   fulfillment_address |->
                       IF Truthy(fulfillment_address)
                       THEN fulfillment_address ELSE None,
                   fulfillment_option_id |-> fulfillment_option_id,
                   totals |-> Totals(subtotal, tax_total, fulfillment_total)]]

\* ------------------------------------------------- the adapter's operations
\* Each operation is given what db.get read (rows: the session table as the
\* transaction sees it) and returns either Raise(error) or
\*   value  : the object returned to the router,
\*   row    : the CheckoutSessionRow object as it is in memory at commit,
\*   dirty  : the columns of that row the commit writes,
\*   order  : {} or {the OrderRow added},
\*   events : the webhook notifications attempted after the commit.

NOT_READY_FOR_PAYMENT == "not_ready_for_payment"
READY_FOR_PAYMENT == "ready_for_payment"
COMPLETED == "completed"
CANCELED == "canceled"

Columns ==
    {"status", "buyer", "items", "fulfillment_address", "fulfillment_option_id", "session_data"}

\* Variant: the session_data column is never seen as changed.
ChangedColumns_NoSessionData(loaded, row) ==
    {c \in Columns \ {"session_data"} : row[c] # loaded[c]}

\* The columns an UPDATE carries: the unit of work compares each assigned
\* attribute with the value that was loaded and writes those that differ.
ChangedColumns(loaded, row) == {c \in Columns : row[c] # loaded[c]}

\* Variant: a new session is never ready, whatever the request carries.
InitialStatus_NeverReady(request) == NOT_READY_FOR_PAYMENT

\* "Determine initial status" of on_create_session.
InitialStatus(request) ==
    LET has_address == request.fulfillment_address # None
    IN IF has_address THEN READY_FOR_PAYMENT ELSE NOT_READY_FOR_PAYMENT

on_create_session(session_id, request) ==
    LET items == request.items
        status == InitialStatus(request)
        built == _build_session(session_id, items, status, request.buyer, request.fulfillment_address, None)
    IN IF built.raised THEN built
       ELSE LET session == built.value
            IN [raised |-> FALSE,
                value |-> session,
                row |-> [status |-> session.status,
                         buyer |-> IF session.buyer # None THEN session.buyer ELSE EmptyDict,
                         items |-> items,
                         fulfillment_address |-> session.fulfillment_address,
                         fulfillment_option_id |-> None,
                         session_data |-> session],
                dirty |-> Columns,
                order |-> {},
                events |-> << >>]

SessionNotFound ==
    Raise(ACPSellerError(404, "not_found", "session_not_found", "Session not found", None))

\* Variant: the read returns the first session of the table.
on_get_session_First(rows, session_id) ==
    IF session_id \notin DOMAIN rows THEN SessionNotFound
    ELSE [raised |-> FALSE, value |-> rows[1].session_data]

on_get_session(rows, session_id) ==
    IF session_id \notin DOMAIN rows THEN SessionNotFound
    ELSE [raised |-> FALSE, value |-> rows[session_id].session_data]

\* Variant: the status follows the address alone, as it does on create.
UpdateStatus_AddressOnly(fulfillment_address, fulfillment_option_id) ==
    IF fulfillment_address # None THEN READY_FOR_PAYMENT ELSE NOT_READY_FOR_PAYMENT

\* "Determine status" of on_update_session.
UpdateStatus(fulfillment_address, fulfillment_option_id) ==
    LET has_address == fulfillment_address # None
        has_fulfillment == fulfillment_option_id # None
    IN IF has_address /\ has_fulfillment
       THEN READY_FOR_PAYMENT ELSE NOT_READY_FOR_PAYMENT

\* Variant: the supplied value is taken even when it is None or empty.
Or_Supplied(supplied, stored) == supplied

\* Python's "supplied or stored": the supplied value when it is truthy, else
\* the stored one.
Or(supplied, stored) == IF Truthy(supplied) THEN supplied ELSE stored

\* Variant: only a completed session is closed to updates.
SessionTerminal_CompletedOnly(row) == row.status = COMPLETED

\* The terminal check of on_update_session.
SessionTerminal(row) == row.status \in {COMPLETED, CANCELED}

on_update_session(rows, session_id, request) ==
    IF session_id \notin DOMAIN rows THEN SessionNotFound
    ELSE
    LET row == rows[session_id] IN
    IF SessionTerminal(row)
    THEN Raise(ACPSellerError(409, "conflict", "session_terminal", "Session is already terminal", None))
    ELSE
    LET req_items == IF request.items = {} THEN << >> ELSE CHOOSE l \in request.items : TRUE
        items == IF req_items # << >> THEN req_items ELSE row.items
        fulfillment_address ==
            IF request.fulfillment_address # None
            THEN request.fulfillment_address ELSE row.fulfillment_address
        fulfillment_option_id == Or(request.fulfillment_option_id, row.fulfillment_option_id)
        buyer == IF request.buyer # None THEN request.buyer ELSE row.buyer
        status == UpdateStatus(fulfillment_address, fulfillment_option_id)
        built == _build_session(session_id, items, status, buyer, fulfillment_address, fulfillment_option_id)
    IN IF built.raised THEN built
       ELSE LET session == built.value
                updated == [status |-> session.status,
                            buyer |-> buyer,
                            items |-> items,
                            fulfillment_address |-> fulfillment_address,
                            fulfillment_option_id |-> fulfillment_option_id,
                            session_data |-> session]
            IN [raised |-> FALSE,
                value |-> session,
                row |-> updated,
                dirty |-> ChangedColumns(row, updated),
                order |-> {},
                events |-> << >>]

\* Variant: the order is charged the subtotal entry.
GrandTotal_Subtotal(session_data) ==
    LET totals == session_data.totals
        hits == {i \in 1..Len(totals) : totals[i].type = "subtotal"}
    IN IF hits = {} THEN 0
       ELSE totals[CHOOSE i \in hits : \A j \in hits : i <= j].amount

\* grand_total of on_complete_session: the amount of the first "total" entry
\* of session_data["totals"], 0 when there is none.
GrandTotal(session_data) ==
    LET totals == session_data.totals
        hits == {i \in 1..Len(totals) : totals[i].type = "total"}
    IN IF hits = {} THEN 0
       ELSE totals[CHOOSE i \in hits : \A j \in hits : i <= j].amount

OrderEvent(event_type, order_id, session_id, status, total_cents) ==
    [type |-> event_type,
     payload |-> [order_id |-> order_id, checkout_session_id |-> session_id,
                  status |-> status, total_cents |-> total_cents]]

\* Variant: the confirmation is sent ahead of the creation.
OrderEvents_UpdatedFirst(order_id, session_id, grand_total) ==
    << OrderEvent("order_updated", order_id, session_id, "confirmed", grand_total),
       OrderEvent("order_created", order_id, session_id, "created", grand_total) >>

\* The two notifications of a completed session, in the order of their calls.
OrderEvents(order_id, session_id, grand_total) ==
    << OrderEvent("order_created", order_id, session_id, "created", grand_total),
       OrderEvent("order_updated", order_id, session_id, "confirmed", grand_total) >>

NotReady(row) ==
    ACPSellerError(409, "conflict", "not_ready", <<"Session is", row.status, "must be 'ready_for_payment'">>, None)

PaymentDeclined ==
    ACPSellerError(402, "invalid_request", "payment_declined", "Payment was declined by issuer", "$.payment_data.token")

\* Variant: the token is looked at before the status.
CompleteRefusal_TokenFirst(row, request) ==
    IF request.payment_data.token = "decline_token" THEN {PaymentDeclined}
    ELSE IF row.status # READY_FOR_PAYMENT THEN {NotReady(row)}
    ELSE {}

\* Variant: no token is ever declined.
CompleteRefusal_NoDecline(row, request) ==
    IF row.status # READY_FOR_PAYMENT THEN {NotReady(row)} ELSE {}

\* The two checks of on_complete_session on the row it read, in their order:
\* {} when the completion goes ahead, else {the error raised}.
CompleteRefusal(row, request) ==
    IF row.status # READY_FOR_PAYMENT THEN {NotReady(row)}
    ELSE IF request.payment_data.token = "decline_token" THEN {PaymentDeclined}
    ELSE {}

\* session_data is the dict loaded with the row; complete and cancel change
\* its "status" in place and assign the same object back, so the unit of work
\* sees the attribute equal to its loaded value and the UPDATE carries the
\* status column alone.
on_complete_session(rows, session_id, request, order_id) ==
    IF session_id \notin DOMAIN rows THEN SessionNotFound
    ELSE
    LET row == rows[session_id] IN
    IF CompleteRefusal(row, request) # {}
    THEN Raise(CHOOSE e \in CompleteRefusal(row, request) : TRUE)
    ELSE
    LET grand_total == GrandTotal(row.session_data)
        session_data == [row.session_data EXCEPT !.status = COMPLETED]
    IN [raised |-> FALSE,
        value |-> [session_data EXCEPT !.status = COMPLETED] @@
                  [order |-> [id |-> order_id, checkout_session_id |-> session_id]],
        row |-> [row EXCEPT !.status = COMPLETED, !.session_data = session_data],
        dirty |-> {"status"},
        order |-> {[id |-> order_id,
                    checkout_session_id |-> session_id,
                    payment_token |-> request.payment_data.token,
                    total_cents |-> grand_total,
                    status |-> "created"]},
        events |-> OrderEvents(order_id, session_id, grand_total)]

\* Variant: a canceled session can be canceled again.
on_cancel_session_Again(rows, session_id) ==
    IF session_id \notin DOMAIN rows THEN SessionNotFound
    ELSE
    LET row == rows[session_id] IN
    IF row.status = COMPLETED
    THEN Raise(ACPSellerError(405, "method_not_allowed", "already_terminal", <<"Session is already", row.status>>, None))
    ELSE
    LET session_data == [row.session_data EXCEPT !.status = CANCELED]
    IN [raised |-> FALSE,
        value |-> session_data,
        row |-> [row EXCEPT !.status = CANCELED, !.session_data = session_data],
        dirty |-> {"status"},
        order |-> {},
        events |-> << >>]

on_cancel_session(rows, session_id) ==
    IF session_id \notin DOMAIN rows THEN SessionNotFound
    ELSE
    LET row == rows[session_id] IN
    IF row.status \in {COMPLETED, CANCELED}
    THEN Raise(ACPSellerError(405, "method_not_allowed", "already_terminal", <<"Session is already", row.status>>, None))
    ELSE
    LET session_data == [row.session_data EXCEPT !.status = CANCELED]
    IN [raised |-> FALSE,
        value |-> session_data,
        row |-> [row EXCEPT !.status = CANCELED, !.session_data = session_data],
        dirty |-> {"status"},
        order |-> {},
        events |-> << >>]

\* ---------------------------------------------------------------- state
VARIABLES
    idem,          \* _IDEMPOTENCY_STORE: (route, key) -> record
    sessions,      \* checkout_sessions table: session id -> row
    orders,        \* orders table, in insertion order
    webhooks,      \* the calls of _emit_order_event, in order
    hook_calls,    \* number of adapter operations invoked so far
    nops,          \* number of requests received so far
    req,           \* Spec: the request handled last
    resp,          \* Spec: the response it got
    served,        \* Spec: where that response came from
    tasks,         \* ConcSpec: the requests in flight
    require_auth,      \* create_seller_router(..., require_auth=...)
    signature_secret,  \* SIGNATURE_SECRET (ACP_OPENAI_SIGNATURE_SECRET)
    audit,         \* acp_action_events table, in insertion order
    psp_store,     \* PSP service: its _IDEMPOTENCY_STORE, key -> record
    provider_calls,\* PSP service: the calls of provider.create_delegated_token
    psp_tasks      \* PSP service: the requests in flight

\* What a deployment fixes.
config == <<require_auth, signature_secret>>

\* The state of the PSP service.
psp == <<psp_store, provider_calls, psp_tasks>>

vars == <<idem, sessions, orders, webhooks, hook_calls, nops, req, resp, served, tasks, require_auth, signature_secret, audit, psp_store, provider_calls, psp_tasks, products>>

\* ------------------------------------------------------------ the router
\* Variant: every route files its records under one route string.
Route_Shared(op, session_id) == <<"POST:/checkout_sessions", 0, "">>

\* The route string of a ledger key: "POST:/checkout_sessions",
\* "POST:/checkout_sessions/{id}", ".../{id}/complete", ".../{id}/cancel".
Route(op, session_id) ==
    CASE op = "create" -> <<"POST:/checkout_sessions", 0, "">>
      [] op = "update" -> <<"POST:/checkout_sessions/", session_id, "">>
      [] op = "complete" -> <<"POST:/checkout_sessions/", session_id, "/complete">>
      [] op = "cancel" -> <<"POST:/checkout_sessions/", session_id, "/cancel">>

\* sha256 of json.dumps(payload, sort_keys=True, separators=(",", ":")): a
\* payload is a record (its fields carry no order) and sha256 is taken to be
\* collision-free, so the hash is the payload under a tag.
_payload_hash(payload) == [sha256 |-> payload]

\* The dict hashed by each route: body.model_dump(mode="json"), {} for cancel.
Payload(r) == IF r.op = "cancel" THEN << >> ELSE r.body

_validate_api_version(api_version) ==
    IF ~Truthy(api_version)
    THEN {ACPSellerError(400, "invalid_request", "missing_api_version", "Missing API-Version header", "$.headers.API-Version")}
    ELSE IF api_version \notin SUPPORTED_API_VERSIONS
    THEN {ACPSellerError(400, "invalid_request", "unsupported_api_version", <<"Unsupported API-Version", api_version>>, "$.headers.API-Version")}
    ELSE {}

NoHeaders == [idempotency_key |-> None, request_id |-> None]

\* _validate_api_version runs before the handler's try block, so the
\* ACPSellerError it raises leaves the endpoint uncaught and the server
\* answers with its generic 500.
\* The body is the text/plain "Internal Server Error", not a JSON object.
InternalServerError ==
    [status_code |-> 500, body |-> [text |-> "Internal Server Error"], headers |-> NoHeaders]

\* hmac.new(secret, raw_body, sha256).hexdigest(): taken to be collision-free,
\* so the digest is the pair it was computed from, under a tag.
HmacSha256(secret, raw_body) == <<"hmac_sha256", secret, raw_body>>

\* The X-OpenAI-Signature header when the request has none: falsy, as None is.
NoSignature == << >>

\* {} when the signature is accepted, else {the ACPSellerError raised}.
_verify_signature(raw_body, signature) ==
    IF ~Truthy(signature_secret) THEN {}
    ELSE IF signature = NoSignature
    THEN {ACPSellerError(401, "invalid_request", "missing_signature", "Missing X-OpenAI-Signature header", "$.headers.X-OpenAI-Signature")}
    ELSE IF signature # HmacSha256(signature_secret, raw_body)
    THEN {ACPSellerError(401, "invalid_request", "invalid_signature", "Invalid X-OpenAI-Signature", "$.headers.X-OpenAI-Signature")}
    ELSE {}

\* "Bearer " followed by a token; any other header value fails startswith.
BearerHeaders == {"Bearer t1"}

\* {} when the header is accepted, else {the response to the HTTPException
\* raised}: the framework's {"detail": ...} body, without the echoed headers.
_validate_bearer_token(authorization) ==
    IF ~Truthy(authorization) \/ authorization \notin BearerHeaders
    THEN {[status_code |-> 401,
           body |-> [detail |-> "Missing or invalid Authorization header"],
           headers |-> NoHeaders]}
    ELSE {}

\* Gate without the signature check.
Gate_NoSignature(r) ==
    IF _validate_api_version(r.api_version) # {} THEN {InternalServerError}
    ELSE IF require_auth /\ _validate_bearer_token(r.authorization) # {}
    THEN _validate_bearer_token(r.authorization)
    ELSE {}

\* The checks every handler makes before it looks at the ledger or calls the
\* adapter, in their order: {} when the request goes on, else {the response
\* the client gets}.  An ACPSellerError raised by the version or the
\* signature check is caught by nothing.
Gate(r) ==
    IF _validate_api_version(r.api_version) # {} THEN {InternalServerError}
    ELSE IF require_auth /\ _validate_bearer_token(r.authorization) # {}
    THEN _validate_bearer_token(r.authorization)
    ELSE IF _verify_signature(r.body, r.x_openai_signature) # {} THEN {InternalServerError}
    ELSE {}

_apply_common_response_headers(idempotency_key, request_id) ==
    [idempotency_key |-> IF Truthy(idempotency_key) THEN idempotency_key ELSE None,
     request_id |-> IF Truthy(request_id) THEN request_id ELSE None]

_error_response(error, idempotency_key, request_id) ==
    [status_code |-> error.status_code,
     body |-> error.body,
     headers |-> _apply_common_response_headers(idempotency_key, request_id)]

RequestNotIdempotent ==
    ACPSellerError(409, "invalid_request", "request_not_idempotent", "Idempotency key reused with different request payload", "$.headers.Idempotency-Key")

\* Variant: a record with the same hash is not replayed.
_idempotency_lookup_NoReplay(store, route, idempotency_key, payload_hash) ==
    IF ~Truthy(idempotency_key) THEN {}
    ELSE IF <<route, idempotency_key>> \notin DOMAIN store THEN {}
    ELSE LET existing == store[<<route, idempotency_key>>]
         IN IF existing.payload_hash # payload_hash
            THEN {_error_response(RequestNotIdempotent, idempotency_key, existing.request_id)}
            ELSE {}

\* Variant: the stored hash is not compared.
_idempotency_lookup_NoHashCheck(store, route, idempotency_key, payload_hash) ==
    IF ~Truthy(idempotency_key) THEN {}
    ELSE IF <<route, idempotency_key>> \notin DOMAIN store THEN {}
    ELSE LET existing == store[<<route, idempotency_key>>]
         IN {[status_code |-> existing.status_code,
              body |-> existing.response_body,
              headers |-> _apply_common_response_headers(idempotency_key, existing.request_id)]}

\* {} for None (go on to the adapter), else {the response to return}.
_idempotency_lookup(store, route, idempotency_key, payload_hash) ==
    IF ~Truthy(idempotency_key) THEN {}
    ELSE IF <<route, idempotency_key>> \notin DOMAIN store THEN {}
    ELSE LET existing == store[<<route, idempotency_key>>]
         IN IF existing.payload_hash # payload_hash
            THEN {_error_response(RequestNotIdempotent, idempotency_key, existing.request_id)}
            ELSE {[status_code |-> existing.status_code,
                   body |-> existing.response_body,
                   headers |-> _apply_common_response_headers(idempotency_key, existing.request_id)]}

\* Which of its two answers a lookup that returned a response gave.
LedgerAnswer(store, route, idempotency_key, payload_hash) ==
    IF store[<<route, idempotency_key>>].payload_hash # payload_hash THEN "conflict" ELSE "replay"

\* Variant: a record is written whether or not the request carries a key.
_idempotency_store_Keyless(store, route, idempotency_key, request_id, payload_hash, status_code, response_body) ==
    LET k == <<route, idempotency_key>>
        record == [request_id |-> request_id,
                   payload_hash |-> payload_hash,
                   status_code |-> status_code,
                   response_body |-> response_body]
    IN [x \in DOMAIN store \cup {k} |-> IF x = k THEN record ELSE store[x]]

\* The ledger after _idempotency_store.
_idempotency_store(store, route, idempotency_key, request_id, payload_hash, status_code, response_body) ==
    IF ~Truthy(idempotency_key) THEN store
    ELSE LET k == <<route, idempotency_key>>
             record == [request_id |-> request_id,
                        payload_hash |-> payload_hash,
                        status_code |-> status_code,
                        response_body |-> response_body]
         IN [x \in DOMAIN store \cup {k} |-> IF x = k THEN record ELSE store[x]]

\* status_code of the route decorator: 201 for create, 200 otherwise.
SuccessCode(op) == IF op = "create" THEN 201 ELSE 200

\* ------------------------------------------------------------- requests
Request(op, session_id, api_version, headers, body) ==
    [op |-> op, session_id |-> session_id, api_version |-> api_version,
     idempotency_key |-> headers[1], request_id |-> headers[2],
     authorization |-> None, x_openai_signature |-> NoSignature, body |-> body]

\* Session ids the clients name: the existing ones and the next, absent one.
SessionTargets ==
    {s \in SessionIds : s <= Cardinality(DOMAIN sessions) + 1}

BodiesOf(op) ==
    CASE op = "create" -> CreateBodies
      [] op = "update" -> UpdateBodies
      [] op = "complete" -> CompleteBodies
      [] OTHER -> {NoBody}

KeyedBodiesOf(op) ==
    CASE op = "create" -> KeyedCreateBodies
      [] op = "update" -> KeyedUpdateBodies
      [] op = "complete" -> CompleteBodies
      [] op = "cancel" -> {NoBody}
      [] OTHER -> {}

\* Requests with a supported API-Version (every body without the two
\* headers, the keyed bodies with each other header pair), and for each route
\* one request shape with a missing or an unsupported API-Version.
Requests(op) ==
    LET targets == IF op = "create" THEN {0} ELSE SessionTargets
    IN {Request(op, s, "2026-01-30", <<None, None>>, b) : s \in targets, b \in BodiesOf(op)}
       \cup {Request(op, s, "2026-01-30", h, b) :
                s \in targets, h \in HeaderPairs \ {<<None, None>>}, b \in KeyedBodiesOf(op)}
       \cup {Request(op, s, v, <<"k1", None>>, CHOOSE b \in BodiesOf(op) : TRUE) :
                s \in {CHOOSE t \in targets : TRUE}, v \in BadApiVersions}

\* ------------------------------------------------ Spec: one request at a time
NoPspTasks == [t \in 1..MaxTasks |-> [pc |-> "idle"]]
NoRequest == [op |-> "none"]
NoResponse == [status_code |-> 0]
NoTasks == [t \in 1..MaxTasks |-> [pc |-> "idle"]]

Init ==
    /\ products = LoadedProducts
    /\ idem = << >>
    /\ sessions = << >>
    /\ orders = << >>
    /\ webhooks = << >>
    /\ hook_calls = 0
    /\ nops = 0
    /\ req = NoRequest
    /\ resp = NoResponse
    /\ served = "none"
    /\ tasks = NoTasks
    /\ require_auth = FALSE
    /\ signature_secret = ""
    /\ audit = << >>
    /\ psp_store = << >>
    /\ provider_calls = << >>
    /\ psp_tasks = NoPspTasks

\* uuid4-derived ids are modelled as the next unused number: a session id is
\* drawn when the row is inserted, an order id counts the orders inserted and
\* those a task in flight is about to insert.
NewSessionId(rows) == Cardinality(DOMAIN rows) + 1
NewOrderId(order_rows) ==
    Len(order_rows) + Cardinality({t \in DOMAIN tasks : tasks[t].pc = "commit" /\ tasks[t].out.order # {}}) + 1

\* The adapter hook of a route, run against the rows it reads.
Adapter(rows, order_rows, r) ==
    CASE r.op = "create" -> on_create_session(NewSessionId(rows), r.body)
      [] r.op = "update" -> on_update_session(rows, r.session_id, r.body)
      [] r.op = "complete" -> on_complete_session(rows, r.session_id, r.body, NewOrderId(order_rows))
      [] r.op = "cancel" -> on_cancel_session(rows, r.session_id)
      [] r.op = "get" -> on_get_session(rows, r.session_id)

\* db.commit(): the INSERT of a new session, or the UPDATE of the dirty
\* columns of an existing one.
Commit(rows, session_id, out) ==
    IF session_id \in DOMAIN rows
    THEN [rows EXCEPT ![session_id] = [c \in Columns |-> IF c \in out.dirty THEN out.row[c] ELSE @[c]]]
    ELSE [x \in DOMAIN rows \cup {session_id} |-> IF x = session_id THEN out.row ELSE rows[x]]

\* ACP_ORDER_WEBHOOK_URL of the deployment modelled: one with a webhook
\* collaborator (the variable defaults to "", and then nothing is posted).
ORDER_WEBHOOK_URL == "https://hooks.example/orders"

\* What a call of _emit_order_event comes to: nothing is posted when
\* ORDER_WEBHOOK_URL is not set ("skipped"); else the notification is posted
\* ("sent") or the post raises, by a refused connection or the 10 s timeout,
\* and the exception is logged and swallowed ("failed").
Deliveries == IF ~Truthy(ORDER_WEBHOOK_URL) THEN {"skipped"} ELSE {"sent", "failed"}

\* Variant: a failed post is left out of the record.
_emit_order_event_DropFailed(emitted, events, deliveries) ==
    emitted \o SelectSeq([i \in 1..Len(events) |-> [type |-> events[i].type, payload |-> events[i].payload, delivery |-> deliveries[i]]], LAMBDA e : e.delivery # "failed")

\* The calls of _emit_order_event so far, each with what it came to.  A call
\* changes nothing else and returns normally whatever the delivery.
_emit_order_event(emitted, events, deliveries) ==
    emitted \o [i \in 1..Len(events) |-> [type |-> events[i].type, payload |-> events[i].payload, delivery |-> deliveries[i]]]

TargetId(rows, r) == IF r.op = "create" THEN NewSessionId(rows) ELSE r.session_id

\* served: "rejected" (version, bearer or signature check), "replay" or "conflict" (the ledger),
\* "adapter" (the hook ran).
Respond(r, response, how) ==
    /\ nops < MaxOps
    /\ req' = r
    /\ resp' = response
    /\ served' = how
    /\ nops' = nops + 1
    /\ UNCHANGED <<tasks, config, audit, psp, products>>

\* The body shared by the four mutating handlers: version check, ledger
\* lookup, adapter hook, ledger store on success, error response on
\* ACPSellerError.
MutatingHandler(r) ==
    LET route == Route(r.op, r.session_id)
        payload_hash == _payload_hash(Payload(r))
        replay == _idempotency_lookup(idem, route, r.idempotency_key, payload_hash)
        out == Adapter(sessions, orders, r)
    IN
    IF Gate(r) # {}
    THEN /\ Respond(r, CHOOSE x \in Gate(r) : TRUE, "rejected")
         /\ UNCHANGED <<idem, sessions, orders, webhooks, hook_calls>>
    ELSE IF replay # {}
    THEN /\ Respond(r, CHOOSE x \in replay : TRUE, LedgerAnswer(idem, route, r.idempotency_key, payload_hash))
         /\ UNCHANGED <<idem, sessions, orders, webhooks, hook_calls>>
    ELSE /\ r.op = "create" => NewSessionId(sessions) \in SessionIds
         /\ hook_calls' = hook_calls + 1
         /\ IF out.raised
            THEN /\ Respond(r, _error_response(out.error, r.idempotency_key, r.request_id), "adapter")
                 /\ UNCHANGED <<idem, sessions, orders, webhooks>>
            ELSE /\ sessions' = Commit(sessions, TargetId(sessions, r), out)
                 /\ orders' = orders \o (IF out.order = {} THEN << >> ELSE << CHOOSE o \in out.order : TRUE >>)
                 /\ \E d \in [1..Len(out.events) -> Deliveries] :
                        webhooks' = _emit_order_event(webhooks, out.events, d)
                 /\ idem' = _idempotency_store(idem, route, r.idempotency_key, r.request_id, payload_hash, SuccessCode(r.op), out.value)
                 /\ Respond(r, [status_code |-> SuccessCode(r.op),
                                body |-> out.value,
                                headers |-> _apply_common_response_headers(r.idempotency_key, r.request_id)], "adapter")

create_checkout_session(r) == r.op = "create" /\ MutatingHandler(r)

update_checkout_session(r) == r.op = "update" /\ MutatingHandler(r)

complete_checkout_session(r) == r.op = "complete" /\ MutatingHandler(r)

cancel_checkout_session(r) == r.op = "cancel" /\ MutatingHandler(r)

get_checkout_session(r) ==
    LET out == on_get_session(sessions, r.session_id)
    IN /\ r.op = "get"
       /\ IF Gate(r) # {}
          THEN /\ Respond(r, CHOOSE x \in Gate(r) : TRUE, "rejected")
               /\ UNCHANGED hook_calls
          ELSE /\ hook_calls' = hook_calls + 1
               /\ IF out.raised
                  THEN Respond(r, _error_response(out.error, r.idempotency_key, r.request_id), "adapter")
                  ELSE Respond(r, [status_code |-> 200,
                                   body |-> out.value,
                                   headers |-> _apply_common_response_headers(r.idempotency_key, r.request_id)], "adapter")
       /\ UNCHANGED <<idem, sessions, orders, webhooks>>

Next ==
    \/ \E r \in Requests("create") : create_checkout_session(r)
    \/ \E r \in Requests("get") : get_checkout_session(r)
    \/ \E r \in Requests("update") : update_checkout_session(r)
    \/ \E r \in Requests("complete") : complete_checkout_session(r)
    \/ \E r \in Requests("cancel") : cancel_checkout_session(r)

Spec == Init /\ [][Next]_vars

\* ------------------------------------- ConcSpec: requests as asyncio tasks
\* A handler runs until it awaits.  Its steps are: receive (version check and
\* ledger lookup, no await that touches shared state in between), the
\* adapter's database read (db.get and the checks on the row), the adapter's
\* commit (followed by the notifications), and the ledger store with the
\* response.  create has no read: it builds the session and inserts it.

\* hooked: the adapter hook was entered for this request.
Task(pc, r, hooked, out, response) ==
    [pc |-> pc, req |-> r, hooked |-> hooked, out |-> out, resp |-> response]
NoOut == [raised |-> FALSE, order |-> {}]

SetTask(t, task) ==
    /\ tasks' = [tasks EXCEPT ![t] = task]
    /\ UNCHANGED <<req, resp, served, config, audit, psp, products>>

SuccessResponse(r, out) ==
    [status_code |-> SuccessCode(r.op),
     body |-> out.value,
     headers |-> _apply_common_response_headers(r.idempotency_key, r.request_id)]

\* A request arrives at the first idle task.
Receive(t, r) ==
    LET replay == _idempotency_lookup(idem, Route(r.op, r.session_id), r.idempotency_key, _payload_hash(Payload(r)))
    IN /\ nops < MaxOps
       /\ tasks[t].pc = "idle"
       /\ \A u \in 1..(t - 1) : tasks[u].pc # "idle"
       /\ nops' = nops + 1
       /\ IF Gate(r) # {}
          THEN SetTask(t, Task("done", r, FALSE, NoOut, CHOOSE x \in Gate(r) : TRUE))
          ELSE IF r.op # "get" /\ replay # {}
          THEN SetTask(t, Task("done", r, FALSE, NoOut, CHOOSE x \in replay : TRUE))
          ELSE SetTask(t, Task("adapter", r, FALSE, NoOut, NoResponse))
       /\ UNCHANGED <<idem, sessions, orders, webhooks, hook_calls>>

\* on_create_session: build the session and insert it.
AdapterCreate(t) ==
    LET r == tasks[t].req
        out == Adapter(sessions, orders, r)
    IN /\ tasks[t].pc = "adapter"
       /\ r.op = "create"
       /\ NewSessionId(sessions) \in SessionIds
       /\ hook_calls' = hook_calls + 1
       /\ IF out.raised
          THEN /\ SetTask(t, Task("done", r, TRUE, NoOut, _error_response(out.error, r.idempotency_key, r.request_id)))
               /\ UNCHANGED sessions
          ELSE /\ SetTask(t, Task("store", r, TRUE, out, NoResponse))
               /\ sessions' = Commit(sessions, NewSessionId(sessions), out)
       /\ UNCHANGED <<idem, orders, webhooks, nops>>

\* The other hooks up to their commit: db.get, the checks on the row read and
\* the new values computed from it.  get returns here.
AdapterRead(t) ==
    LET r == tasks[t].req
        out == Adapter(sessions, orders, r)
    IN /\ tasks[t].pc = "adapter"
       /\ r.op # "create"
       /\ hook_calls' = hook_calls + 1
       /\ IF out.raised
          THEN SetTask(t, Task("done", r, TRUE, NoOut, _error_response(out.error, r.idempotency_key, r.request_id)))
          ELSE IF r.op = "get"
          THEN SetTask(t, Task("done", r, TRUE, NoOut, SuccessResponse(r, out)))
          ELSE SetTask(t, Task("commit", r, TRUE, out, NoResponse))
       /\ UNCHANGED <<idem, sessions, orders, webhooks, nops>>

\* db.commit() of update, complete and cancel.
AdapterCommit(t) ==
    LET r == tasks[t].req
        out == tasks[t].out
    IN /\ tasks[t].pc = "commit"
       /\ sessions' = Commit(sessions, r.session_id, out)
       /\ orders' = orders \o (IF out.order = {} THEN << >> ELSE << CHOOSE o \in out.order : TRUE >>)
       /\ SetTask(t, Task(IF out.events = << >> THEN "store" ELSE "notify", r, TRUE, out, NoResponse))
       /\ UNCHANGED <<idem, webhooks, hook_calls, nops>>

\* The notifications of this task's order that were attempted so far.
Notified(t) ==
    Cardinality({i \in 1..Len(webhooks) :
                   \E o \in tasks[t].out.order : webhooks[i].payload.order_id = o.id})

\* One "await _emit_order_event(...)" of on_complete_session, after the commit.
Notify(t) ==
    LET r == tasks[t].req
        out == tasks[t].out
        k == Notified(t) + 1
    IN /\ tasks[t].pc = "notify"
       /\ \E d \in Deliveries :
             webhooks' = _emit_order_event(webhooks, << out.events[k] >>, << d >>)
       /\ SetTask(t, Task(IF k = Len(out.events) THEN "store" ELSE "notify", r, TRUE, out, NoResponse))
       /\ UNCHANGED <<idem, sessions, orders, hook_calls, nops>>

\* Back in the router: _idempotency_store and the response.
Store(t) ==
    LET r == tasks[t].req
        out == tasks[t].out
    IN /\ tasks[t].pc = "store"
       /\ idem' = _idempotency_store(idem, Route(r.op, r.session_id), r.idempotency_key, r.request_id, _payload_hash(Payload(r)), SuccessCode(r.op), out.value)
       /\ SetTask(t, Task("done", r, TRUE, out, SuccessResponse(r, out)))
       /\ UNCHANGED <<sessions, orders, webhooks, hook_calls, nops>>

\* The response is sent and the task ends.
Finish(t) ==
    /\ tasks[t].pc = "done"
    /\ SetTask(t, [pc |-> "idle"])
    /\ UNCHANGED <<idem, sessions, orders, webhooks, hook_calls, nops>>

\* The requests of ConcSpec: the keyed bodies of each route, without and with
\* an Idempotency-Key, a get, and one request without an API-Version.
ConcRequests ==
    {Request("create", 0, "2026-01-30", h, b) : h \in {<<None, None>>, <<"k1", None>>}, b \in KeyedCreateBodies}
    \cup {Request(op, s, "2026-01-30", h, b) :
             op \in {"update"}, s \in SessionTargets, h \in {<<None, None>>, <<"k1", None>>}, b \in KeyedUpdateBodies}
    \cup {Request(op, s, "2026-01-30", h, b) :
             op \in {"complete"}, s \in SessionTargets, h \in {<<None, None>>, <<"k1", None>>}, b \in CompleteBodies}
    \cup {Request(op, s, "2026-01-30", h, NoBody) :
             op \in {"cancel"}, s \in SessionTargets, h \in {<<None, None>>, <<"k1", None>>}}
    \cup {Request("get", s, "2026-01-30", <<None, None>>, NoBody) : s \in SessionTargets}
    \cup {Request("create", 0, None, <<"k1", None>>, CreateBody(None, <<Item("p1", 2)>>, None))}

ConcNext ==
    \/ \E t \in 1..MaxTasks : \E r \in ConcRequests : Receive(t, r)
    \/ \E t \in 1..MaxTasks : AdapterCreate(t)
    \/ \E t \in 1..MaxTasks : AdapterRead(t)
    \/ \E t \in 1..MaxTasks : AdapterCommit(t)
    \/ \E t \in 1..MaxTasks : Notify(t)
    \/ \E t \in 1..MaxTasks : Store(t)
    \/ \E t \in 1..MaxTasks : Finish(t)

ConcSpec == Init /\ [][ConcNext]_vars

\* --------------------------- GateSpec: the checks in front of the handlers
\* The router as any deployment may configure it: with or without
\* require_auth, with or without a signing secret.
Secrets == {"", "whsec"}

\* (API-Version, Authorization, signing secret of X-OpenAI-Signature or None)
\* of a request: all three good, each one bad in turn, and none sent.
GateProfiles ==
    { <<"2026-01-30", "Bearer t1", "whsec">>,
      <<None, "Bearer t1", "whsec">>,
      <<"2020-01-01", "Bearer t1", "whsec">>,
      <<"2026-01-30", None, "whsec">>,
      <<"2026-01-30", "Basic dDE=", "whsec">>,
      <<"2026-01-30", "Bearer t1", None>>,
      <<"2026-01-30", "Bearer t1", "other">>,
      <<"2026-01-30", None, None>>,
      <<None, None, None>> }

GateBody(op) ==
    CASE op = "create" -> CreateBody(None, <<Item("p1", 2)>>, "A1")
      [] op = "update" -> UpdateBody(None, {}, None, "ship_std")
      [] op = "complete" -> [payment_data |-> [token |-> "tok_ok", provider |-> "stripe"]]
      [] OTHER -> NoBody

\* The request r sent with the given Authorization and signed with the given
\* secret (None: no X-OpenAI-Signature header).
WithCredentials(r, authorization, secret) ==
    [r EXCEPT !.authorization = authorization,
              !.x_openai_signature = IF secret = None THEN NoSignature ELSE HmacSha256(secret, r.body)]

GateRequests(op) ==
    {WithCredentials(Request(op, IF op = "create" THEN 0 ELSE 1, p[1], h, GateBody(op)), p[2], p[3]) :
        p \in GateProfiles, h \in {<<None, None>>, <<"k1", "r1">>}}

GateInit ==
    /\ products = LoadedProducts
    /\ idem = << >>
    /\ sessions = << >>
    /\ orders = << >>
    /\ webhooks = << >>
    /\ hook_calls = 0
    /\ nops = 0
    /\ req = NoRequest
    /\ resp = NoResponse
    /\ served = "none"
    /\ tasks = NoTasks
    /\ require_auth \in BOOLEAN
    /\ signature_secret \in Secrets
    /\ audit = << >>
    /\ psp_store = << >>
    /\ provider_calls = << >>
    /\ psp_tasks = NoPspTasks

GateNext ==
    \/ \E r \in GateRequests("create") : create_checkout_session(r)
    \/ \E r \in GateRequests("get") : get_checkout_session(r)
    \/ \E r \in GateRequests("update") : update_checkout_session(r)
    \/ \E r \in GateRequests("complete") : complete_checkout_session(r)
    \/ \E r \in GateRequests("cancel") : cancel_checkout_session(r)

GateSpec == GateInit /\ [][GateNext]_vars

\* ------------------------------------- PspSpec: the delegate-payment service
\* services/psp/main.py: one endpoint, its own ledger keyed by the
\* Idempotency-Key alone, and the payment provider behind it.
ACPError(error_type, code, message, param) ==
    [type |-> error_type, code |-> code, message |-> message, param |-> param]

_error_response_psp(status_code, error, idempotency_key, request_id) ==
    [status_code |-> status_code,
     body |-> [error |-> error],
     headers |-> _apply_common_response_headers(idempotency_key, request_id)]

\* {} for None, else {the ACPError returned}.
_validate_api_version_psp(api_version) ==
    IF ~Truthy(api_version)
    THEN {ACPError("invalid_request", "missing_api_version", "Missing API-Version header", "$.headers.API-Version")}
    ELSE IF api_version \notin SUPPORTED_API_VERSIONS
    THEN {ACPError("invalid_request", "unsupported_api_version", <<"Unsupported API-Version", api_version>>, "$.headers.API-Version")}
    ELSE {}

_verify_signature_psp(raw_body, signature) ==
    IF ~Truthy(signature_secret) THEN {}
    ELSE IF signature = NoSignature
    THEN {ACPError("invalid_request", "missing_signature", "Missing X-OpenAI-Signature header", "$.headers.X-OpenAI-Signature")}
    ELSE IF signature # HmacSha256(signature_secret, raw_body)
    THEN {ACPError("invalid_request", "invalid_signature", "Invalid X-OpenAI-Signature", "$.headers.X-OpenAI-Signature")}
    ELSE {}

\* A card number of n characters.
CardNumber(n) == [i \in 1..n |-> 4]

\* The fields of a DelegatePaymentRequest the endpoint and the provider read.
DelegatePaymentRequest(max_amount, number) ==
    [payment_method |-> [number |-> number], allowance |-> [max_amount |-> max_amount]]

\* Amounts around zero, card numbers around the 13 characters.
DelegatePaymentBodies ==
    { DelegatePaymentRequest(5000, CardNumber(16)),
      DelegatePaymentRequest(1, CardNumber(13)),
      DelegatePaymentRequest(0, CardNumber(16)),
      DelegatePaymentRequest(-1, CardNumber(13)),
      DelegatePaymentRequest(5000, CardNumber(12)),
      DelegatePaymentRequest(0, CardNumber(12)) }

PspRequest(authorization, api_version, headers, secret, body) ==
    [authorization |-> authorization, api_version |-> api_version,
     idempotency_key |-> headers[1], request_id |-> headers[2],
     x_openai_signature |-> IF secret = None THEN NoSignature ELSE HmacSha256(secret, body),
     body |-> body]

\* Well-formed requests of every body, keyless and under one key with two
\* Request-Ids, and a request failing each of the three checks.
PspRequests ==
    {PspRequest("Bearer t1", "2026-01-30", h, "whsec", b) :
        h \in {<<None, None>>, <<"k1", "r1">>, <<"k1", "r2">>}, b \in DelegatePaymentBodies}
    \cup {PspRequest(p[1], p[2], <<"k1", "r1">>, p[3], DelegatePaymentRequest(5000, CardNumber(16))) :
            p \in { <<None, "2026-01-30", "whsec">>,
                    <<"Basic dDE=", "2026-01-30", "whsec">>,
                    <<"Bearer t1", None, "whsec">>,
                    <<"Bearer t1", "2020-01-01", "whsec">>,
                    <<"Bearer t1", "2026-01-30", None>>,
                    <<"Bearer t1", "2026-01-30", "other">> }}

\* Variant: a stored record with the same hash is not replayed.
PspLookup_NoReplay(store, idempotency_key, request_id, payload_hash) ==
    IF ~Truthy(idempotency_key) THEN {}
    ELSE IF idempotency_key \notin DOMAIN store THEN {}
    ELSE IF store[idempotency_key].payload_hash # payload_hash
    THEN {_error_response_psp(409, ACPError("invalid_request", "request_not_idempotent", "Idempotency key reused with different request payload", "$.headers.Idempotency-Key"), idempotency_key, request_id)}
    ELSE {}

\* The lookup in _IDEMPOTENCY_STORE: {} to go on, else {the response}.  The
\* conflict carries the request's own Request-Id, the replay the stored one.
PspLookup(store, idempotency_key, request_id, payload_hash) ==
    IF ~Truthy(idempotency_key) THEN {}
    ELSE IF idempotency_key \notin DOMAIN store THEN {}
    ELSE IF store[idempotency_key].payload_hash # payload_hash
    THEN {_error_response_psp(409, ACPError("invalid_request", "request_not_idempotent", "Idempotency key reused with different request payload", "$.headers.Idempotency-Key"), idempotency_key, request_id)}
    ELSE {[status_code |-> store[idempotency_key].status_code,
           body |-> store[idempotency_key].response_body,
           headers |-> _apply_common_response_headers(idempotency_key, store[idempotency_key].request_id)]}

InvalidAmount ==
    ACPError("invalid_request", "invalid_amount", "max_amount must be positive", "$.allowance.max_amount")

InvalidCard ==
    ACPError("invalid_request", "invalid_card", "Card number is too short", "$.payment_method.number")

\* Variant: the card number is looked at before the amount.
PspRefusal_CardFirst(body, idempotency_key, request_id) ==
    IF Len(body.payment_method.number) < 13
    THEN {_error_response_psp(400, InvalidCard, idempotency_key, request_id)}
    ELSE IF body.allowance.max_amount <= 0
    THEN {_error_response_psp(422, InvalidAmount, idempotency_key, request_id)}
    ELSE {}

\* The two constraints checked ahead of the provider: {} when both hold.
PspRefusal(body, idempotency_key, request_id) ==
    IF body.allowance.max_amount <= 0
    THEN {_error_response_psp(422, InvalidAmount, idempotency_key, request_id)}
    ELSE IF Len(body.payment_method.number) < 13
    THEN {_error_response_psp(400, InvalidCard, idempotency_key, request_id)}
    ELSE {}

\* What a call of the provider comes to: the mock always issues a token, the
\* Stripe provider issues one or raises (API or network error).
ProviderOutcomes == {"issued", "raised"}

\* The tokens issued so far.
Issued(calls) == SelectSeq(calls, LAMBDA c : c.outcome = "issued")

\* create_delegated_token: a token with a fresh id (uuid4, or Stripe's
\* payment method id), stamped with the time of the call.
create_delegated_token(calls, body) ==
    [id |-> <<"vt", Len(Issued(calls)) + 1>>,
     created |-> Len(calls) + 1,
     metadata |-> [last4 |-> SubSeq(body.payment_method.number, Len(body.payment_method.number) - 3, Len(body.payment_method.number))]]

PspTask(pc, r, arrived, response, how) ==
    [pc |-> pc, req |-> r, arrived |-> arrived, resp |-> response, served |-> how]

\* What the PSP actions leave alone.
seller == <<idem, sessions, orders, webhooks, hook_calls, req, resp, served, tasks, require_auth, audit, products>>

\* A request arrives: the bearer and the version check, up to
\* "await request.body()".  arrived: the provider calls made before it came.
PspReceive(t, r) ==
    LET version_error == _validate_api_version_psp(r.api_version)
        here == Len(provider_calls)
    IN /\ nops < MaxOps
       /\ psp_tasks[t].pc = "idle"
       /\ \A u \in 1..(t - 1) : psp_tasks[u].pc # "idle"
       /\ nops' = nops + 1
       /\ psp_tasks' = [psp_tasks EXCEPT ![t] =
             IF ~Truthy(r.authorization) \/ r.authorization \notin BearerHeaders
             THEN PspTask("done", r, here, _error_response_psp(401, ACPError("invalid_request", "missing_authorization", "Missing or invalid Authorization header", "$.headers.Authorization"), r.idempotency_key, r.request_id), "rejected")
             ELSE IF version_error # {}
             THEN PspTask("done", r, here, _error_response_psp(400, CHOOSE e \in version_error : TRUE, r.idempotency_key, r.request_id), "rejected")
             ELSE PspTask("body", r, here, NoResponse, "none")]
       /\ UNCHANGED <<seller, signature_secret, psp_store, provider_calls>>

\* The rest of create_delegated_payment, which nothing interrupts: neither
\* provider suspends between the lookup and the store.
create_delegated_payment(t) ==
    LET r == psp_tasks[t].req
        here == psp_tasks[t].arrived
        signature_error == _verify_signature_psp(r.body, r.x_openai_signature)
        payload_hash == _payload_hash(r.body)
        found == PspLookup(psp_store, r.idempotency_key, r.request_id, payload_hash)
        refusal == PspRefusal(r.body, r.idempotency_key, r.request_id)
        result == create_delegated_token(provider_calls, r.body)
        Answer(response, how) == psp_tasks' = [psp_tasks EXCEPT ![t] = PspTask("done", r, here, response, how)]
        Call(outcome) == provider_calls' = Append(provider_calls, [idempotency_key |-> r.idempotency_key, body |-> r.body, outcome |-> outcome])
    IN /\ psp_tasks[t].pc = "body"
       /\ IF signature_error # {}
          THEN /\ Answer(_error_response_psp(401, CHOOSE e \in signature_error : TRUE, r.idempotency_key, r.request_id), "rejected")
               /\ UNCHANGED <<psp_store, provider_calls>>
          ELSE IF found # {}
          THEN /\ Answer(CHOOSE x \in found : TRUE,
                         IF psp_store[r.idempotency_key].payload_hash # payload_hash THEN "conflict" ELSE "replay")
               /\ UNCHANGED <<psp_store, provider_calls>>
          ELSE IF refusal # {}
          THEN /\ Answer(CHOOSE x \in refusal : TRUE, "refused")
               /\ UNCHANGED <<psp_store, provider_calls>>
          ELSE \E outcome \in ProviderOutcomes :
                 /\ Call(outcome)
                 /\ IF outcome = "raised"
                    THEN /\ Answer(_error_response_psp(500, ACPError("api_error", "internal_error", "provider error", None), r.idempotency_key, r.request_id), "provider")
                         /\ UNCHANGED psp_store
                    ELSE /\ Answer([status_code |-> 201, body |-> result,
                                    headers |-> _apply_common_response_headers(r.idempotency_key, r.request_id)], "provider")
                         /\ psp_store' =
                              IF ~Truthy(r.idempotency_key) THEN psp_store
                              ELSE [x \in DOMAIN psp_store \cup {r.idempotency_key} |->
                                      IF x = r.idempotency_key
                                      THEN [request_id |-> r.request_id, payload_hash |-> payload_hash,
                                            status_code |-> 201, response_body |-> result]
                                      ELSE psp_store[x]]
       /\ UNCHANGED <<seller, signature_secret, nops>>

\* The response is sent and the task ends.
PspFinish(t) ==
    /\ psp_tasks[t].pc = "done"
    /\ psp_tasks' = [psp_tasks EXCEPT ![t] = [pc |-> "idle"]]
    /\ UNCHANGED <<seller, signature_secret, nops, psp_store, provider_calls>>

PspInit ==
    /\ products = LoadedProducts
    /\ idem = << >>
    /\ sessions = << >>
    /\ orders = << >>
    /\ webhooks = << >>
    /\ hook_calls = 0
    /\ nops = 0
    /\ req = NoRequest
    /\ resp = NoResponse
    /\ served = "none"
    /\ tasks = NoTasks
    /\ require_auth = TRUE
    /\ signature_secret \in Secrets
    /\ audit = << >>
    /\ psp_store = << >>
    /\ provider_calls = << >>
    /\ psp_tasks = NoPspTasks

PspNext ==
    \/ \E t \in 1..MaxTasks, r \in PspRequests : PspReceive(t, r)
    \/ \E t \in 1..MaxTasks : create_delegated_payment(t)
    \/ \E t \in 1..MaxTasks : PspFinish(t)

PspSpec == PspInit /\ [][PspNext]_vars

\* --------------------------------------- CatalogSpec: the compare endpoint
\* Ids a compare request names: a product in stock, one out of stock, and
\* one without a row.
CompareIds == {"p1", "p3", "px"}

\* product_ids of a request body: any list of up to MaxProductIds ids, the
\* same id more than once included.
ProductIdLists == UNION {[1..n -> CompareIds] : n \in 0..MaxProductIds}

CompareRequests ==
    {[op |-> "compare", product_ids |-> l, idempotency_key |-> k] :
        l \in ProductIdLists, k \in {None, "k1"}}

\* CompareProductsRequest: product_ids with min_length=2, max_length=4.
CompareProductsRequest(product_ids) == Len(product_ids) >= 2 /\ Len(product_ids) <= 4

\* The answer to a body that fails validation.
RequestValidationError ==
    [status_code |-> 422, body |-> [detail |-> "validation error"], headers |-> NoHeaders]

\* _log_acp_action: the row added to acp_action_events.  Without an
\* idempotency_key the endpoint makes one up (uuid4).
_log_acp_action(log, session_id, intent_type, input_payload, idempotency_key, status) ==
    Append(log, [session_id |-> session_id, intent_type |-> intent_type,
                 input |-> input_payload,
                 idempotency_key |-> IF Truthy(idempotency_key) THEN idempotency_key
                                     ELSE <<"compare_", Len(log) + 1>>,
                 status |-> status])

\* Variant: one product that resolves is enough.
CompareResult_OneIsEnough(log, product_ids, idempotency_key) ==
    LET rows == SelectSeq(product_ids, LAMBDA id : id \in DOMAIN Catalog)
    IN IF Len(rows) < 1
       THEN [response |-> [status_code |-> 422,
                           body |-> [detail |-> "At least two valid product_ids are required"],
                           headers |-> NoHeaders],
             log |-> log]
       ELSE [response |-> [status_code |-> 200,
                           body |-> [products |-> [i \in 1..Len(rows) |->
                                        [id |-> rows[i], price |-> Catalog[rows[i]].price_cents,
                                         in_stock |-> Catalog[rows[i]].in_stock]]],
                           headers |-> NoHeaders],
             log |-> _log_acp_action(log, "compare-session", "compare", [product_ids |-> product_ids], idempotency_key, "succeeded")]

\* The body of compare_endpoint: the rows of the ids that have one, in the
\* order and as often as the request names them; 422 before anything is
\* logged when they are fewer than two, else the comparison and its audit row.
CompareResult(log, product_ids, idempotency_key) ==
    LET rows == SelectSeq(product_ids, LAMBDA id : id \in DOMAIN Catalog)
    IN IF Len(rows) < 2
       THEN [response |-> [status_code |-> 422,
                           body |-> [detail |-> "At least two valid product_ids are required"],
                           headers |-> NoHeaders],
             log |-> log]
       ELSE [response |-> [status_code |-> 200,
                           body |-> [products |-> [i \in 1..Len(rows) |->
                                        [id |-> rows[i], price |-> Catalog[rows[i]].price_cents,
                                         in_stock |-> Catalog[rows[i]].in_stock]]],
                           headers |-> NoHeaders],
             log |-> _log_acp_action(log, "compare-session", "compare", [product_ids |-> product_ids], idempotency_key, "succeeded")]

\* POST /compare.
compare_endpoint(r) ==
    LET out == CompareResult(audit, r.product_ids, r.idempotency_key)
    IN /\ nops < MaxCompares
       /\ nops' = nops + 1
       /\ req' = r
       /\ IF ~CompareProductsRequest(r.product_ids)
          THEN resp' = RequestValidationError /\ audit' = audit
          ELSE resp' = out.response /\ audit' = out.log
       /\ UNCHANGED <<idem, sessions, orders, webhooks, hook_calls, served, tasks, config, psp, products>>

CatalogNext == \E r \in CompareRequests : compare_endpoint(r)

CatalogSpec == Init /\ [][CatalogNext]_vars

\* ------------------------------------------- TaxSpec: sessions of many carts
\* Carts of one to MaxLineItems items, each an in-stock product in a
\* quantity of 1..MaxQuantity; the same product may be named more than once.
CartItems == {Item(id, q) : id \in {"p1", "p2"}, q \in 1..MaxQuantity}

Carts == UNION {[1..n -> CartItems] : n \in 1..MaxLineItems}

TaxRequests == {Request("create", 0, "2026-01-30", <<None, None>>, CreateBody(None, l, None)) : l \in Carts}

TaxNext == \E r \in TaxRequests : create_checkout_session(r)

TaxSpec == Init /\ [][TaxNext]_vars

\* ------------------------------- PriceSpec: checkout while the catalog reloads
\* _bulk_insert of the ingestion pipeline: one transaction deletes every row
\* of the products table and inserts the rows of the snapshot.
_bulk_insert(snapshot) ==
    /\ snapshot # << >>
    /\ products' = snapshot
    /\ UNCHANGED <<idem, sessions, orders, webhooks, hook_calls, nops, req, resp, served, tasks, config, audit, psp>>

\* One well-formed request per route: a cart of p1 x 2 with an address, the
\* choice of standard shipping, a payment that is accepted.
PriceRequests(op) ==
    LET targets == IF op = "create" THEN {0} ELSE SessionTargets
    IN {Request(op, s, "2026-01-30", <<None, None>>, GateBody(op)) : s \in targets}

PriceNext ==
    \/ \E r \in PriceRequests("create") : create_checkout_session(r)
    \/ \E r \in PriceRequests("get") : get_checkout_session(r)
    \/ \E r \in PriceRequests("update") : update_checkout_session(r)
    \/ \E r \in PriceRequests("complete") : complete_checkout_session(r)
    \/ \E r \in PriceRequests("cancel") : cancel_checkout_session(r)
    \/ _bulk_insert(ReloadedProducts)

PriceSpec == Init /\ [][PriceNext]_vars

\* --------------------------- HashSpec: create bodies as the client sends them
\* A JSON object is the sequence of its members <<name, value>> in the order
\* sent; a number and a string are tokens of different kinds.
Num(n) == <<"number", n>>
Str(s) == <<"string", s>>

Has(object, name) == \E i \in 1..Len(object) : object[i][1] = name

Get(object, name) == object[CHOOSE i \in 1..Len(object) : object[i][1] = name][2]

\* The orders in which the members of a set can be sent.
Orders(members) ==
    {o \in [1..Cardinality(members) -> members] : \A i, j \in DOMAIN o : i # j => o[i] # o[j]}

\* One item as JSON: the quantity 2 written as a number or as the string "2".
RawItems ==
    UNION {Orders({<<"id", Str("p1")>>, <<"quantity", q>>}) : q \in {Num(1), Num(2), Str("2")}}

\* Create bodies as JSON: the items, with or without an address, with or
\* without a member the request model does not declare.
RawCreateBodies ==
    UNION {Orders({<<"items", <<item>> >>} \cup address \cup extra) :
              item \in RawItems,
              address \in {{}, {<<"fulfillment_address", Str("A1")>>}},
              extra \in {{}, {<<"note", Str("a")>>}, {<<"note", Str("b")>>}}}

\* Validation of an int field in pydantic's lax mode: a number, or a string
\* of digits, which is converted.
IntOf(token) ==
    IF token[1] = "number" THEN token[2]
    ELSE CASE token[2] = "1" -> 1
           [] token[2] = "2" -> 2

ItemOf(raw_item) == Item(Get(raw_item, "id")[2], IntOf(Get(raw_item, "quantity")))

\* CheckoutSessionCreateRequest parsed from the JSON body: the declared
\* fields by name, None for an absent optional one; members that are not
\* declared are ignored.
CheckoutSessionCreateRequest(raw_body) ==
    LET items == Get(raw_body, "items")
    IN CreateBody(None,
                  [i \in 1..Len(items) |-> ItemOf(items[i])],
                  IF Has(raw_body, "fulfillment_address") THEN Get(raw_body, "fulfillment_address")[2] ELSE None)

\* The create request whose body is raw_body, under the Idempotency-Key k1.
RawRequest(raw_body) ==
    Request("create", 0, "2026-01-30", <<"k1", None>>, CheckoutSessionCreateRequest(raw_body)) @@ [raw_body |-> raw_body]

HashNext == \E raw_body \in RawCreateBodies : create_checkout_session(RawRequest(raw_body))

HashSpec == Init /\ [][HashNext]_vars

\* ================================================================ properties
\* A step of Spec handles one request: req' is the request, resp' its response.
Handled == nops' = nops + 1

\* The request of a step is a mutating one that passed the version check.
Mutating(r) ==
    /\ r.op \in {"create", "update", "complete", "cancel"}
    /\ Gate(r) = {}

LedgerKey(r) == <<Route(r.op, r.session_id), r.idempotency_key>>

\* The request carries an Idempotency-Key the router takes as one.
Keyed(r) == Truthy(r.idempotency_key)

IsError(response, status_code, code) ==
    /\ response.status_code = status_code
    /\ "error" \in DOMAIN response.body
    /\ response.body.error.code = code

\* ---- C1
\* C1: a mutating request (past the version check) whose route and key have a
\* ledger record with the same payload hash gets exactly the stored status
\* code and stored body; the adapter operation is not invoked, and sessions,
\* orders, notifications and the ledger stay as they were.
C1_Replay ==
    [][(Handled /\ Mutating(req') /\ Keyed(req') /\ LedgerKey(req') \in DOMAIN idem
          /\ idem[LedgerKey(req')].payload_hash = _payload_hash(Payload(req')))
       => /\ resp'.status_code = idem[LedgerKey(req')].status_code
          /\ resp'.body = idem[LedgerKey(req')].response_body
          /\ hook_calls' = hook_calls
          /\ UNCHANGED <<idem, sessions, orders, webhooks>>]_vars

\* A create was replayed after the session it made had moved on: the 201 and
\* the stored body came back although the session is no longer as stored.
C1_Witness ==
    /\ served = "replay"
    /\ req.op = "create"
    /\ resp.status_code = 201
    /\ hook_calls < nops
    /\ resp.body.id \in DOMAIN sessions
    /\ sessions[resp.body.id].session_data # resp.body

\* ---- C2
\* C2: a mutating request (past the version check) whose route and key have a
\* ledger record with a different payload hash is refused with 409
\* request_not_idempotent; the adapter operation is not invoked and the
\* record, like everything else stored, is unchanged.
C2_Conflict ==
    [][(Handled /\ Mutating(req') /\ Keyed(req') /\ LedgerKey(req') \in DOMAIN idem
          /\ idem[LedgerKey(req')].payload_hash # _payload_hash(Payload(req')))
       => /\ IsError(resp', 409, "request_not_idempotent")
          /\ hook_calls' = hook_calls
          /\ UNCHANGED <<idem, sessions, orders, webhooks>>]_vars

C2_Witness ==
    /\ served = "conflict"
    /\ IsError(resp, 409, "request_not_idempotent")
    /\ LedgerKey(req) \in DOMAIN idem
    /\ idem[LedgerKey(req)].payload_hash # _payload_hash(Payload(req))
    /\ hook_calls < nops

\* ---- C3
\* C3: the outcome of a keyed request is in the ledger whether it succeeded or
\* failed: after a keyed request that the adapter answered (success or
\* error), the ledger holds, for its route and key, that status code and body.
C3_FailuresStored ==
    (served = "adapter" /\ Mutating(req) /\ Keyed(req))
    => /\ LedgerKey(req) \in DOMAIN idem
       /\ idem[LedgerKey(req)].status_code = resp.status_code
       /\ idem[LedgerKey(req)].response_body = resp.body

\* ---- C4
\* C4: of the requests in flight with the same route, key and payload, at most
\* one has entered the adapter operation.
C4_OneExecution ==
    \A t, u \in 1..MaxTasks :
        (/\ t # u
         /\ tasks[t].pc # "idle" /\ tasks[u].pc # "idle"
         /\ Mutating(tasks[t].req) /\ Keyed(tasks[t].req)
         /\ tasks[u].req.op = tasks[t].req.op
         /\ LedgerKey(tasks[u].req) = LedgerKey(tasks[t].req)
         /\ Payload(tasks[u].req) = Payload(tasks[t].req))
        => ~(tasks[t].hooked /\ tasks[u].hooked)

\* ---- C5
\* C5: a ledger record, once written, is never removed and never changed,
\* under any interleaving of requests.
C5_WriteOnce ==
    [][\A k \in DOMAIN idem : k \in DOMAIN idem' /\ idem'[k] = idem[k]]_vars

\* ---- C6
\* C6: a mutating request (past the version check) without an Idempotency-Key
\* always invokes the adapter operation, is answered by it and not by the
\* ledger, and leaves the ledger unchanged; a keyless create that succeeds
\* adds a session whose id no earlier session has, so two identical keyless
\* creates make two distinct sessions.
C6_Keyless ==
    [][(Handled /\ Mutating(req') /\ ~Keyed(req'))
       => /\ hook_calls' = hook_calls + 1
          /\ served' = "adapter"
          /\ idem' = idem
          /\ (req'.op = "create" /\ resp'.status_code = 201)
             => /\ resp'.body.id \notin DOMAIN sessions
                /\ DOMAIN sessions' = DOMAIN sessions \cup {resp'.body.id}
                /\ \A s \in DOMAIN sessions : sessions'[s] = sessions[s]]_vars

\* Two keyless creates with the same body made two sessions.
C6_Witness ==
    /\ nops = 2
    /\ hook_calls = 2
    /\ DOMAIN sessions = {1, 2}
    /\ req.op = "create"
    /\ ~Keyed(req)
    /\ resp.status_code = 201
    /\ resp.body.id = 2
    /\ sessions[1].items = req.body.items
    /\ sessions[1].fulfillment_address = req.body.fulfillment_address
    /\ sessions[1].buyer = req.body.buyer
    /\ idem = << >>

\* ---- C7
\* C7: a create that succeeds persists a new session whose status is
\* ready_for_payment exactly when the request carried a fulfillment address,
\* and not_ready_for_payment otherwise; no fulfillment option is selected.
C7_CreateStatus ==
    (served = "adapter" /\ req.op = "create" /\ resp.status_code = 201)
    => /\ resp.body.id \in DOMAIN sessions
       /\ LET row == sessions[resp.body.id]
          IN /\ row.status = (IF req.body.fulfillment_address # None
                              THEN READY_FOR_PAYMENT ELSE NOT_READY_FOR_PAYMENT)
             /\ row.session_data.status = row.status
             /\ resp.body.status = row.status
             /\ row.fulfillment_option_id = None
             /\ row.session_data.fulfillment_option_id = None

C7_Witness ==
    /\ served = "adapter"
    /\ req.op = "create"
    /\ resp.status_code = 201
    /\ req.body.fulfillment_address # None
    /\ sessions[resp.body.id].status = READY_FOR_PAYMENT
    /\ sessions[resp.body.id].fulfillment_option_id = None

\* ---- C8
\* The value update works with: the request's when it supplies one (an empty
\* option id is not one), else the stored one.
Effective(requested, stored) == IF Truthy(requested) THEN requested ELSE stored

\* C8: after an update of a non-terminal session that succeeds, the persisted
\* status is ready_for_payment exactly when the session then has a
\* fulfillment address and a selected fulfillment option, each the request's
\* when supplied and the stored one otherwise, and not_ready_for_payment
\* otherwise.
C8_UpdateStatus ==
    [][(Handled /\ req'.op = "update" /\ served' = "adapter" /\ resp'.status_code = 200)
       => LET old == sessions[req'.session_id]
              new == sessions'[req'.session_id]
              address == Effective(req'.body.fulfillment_address, old.fulfillment_address)
              option == Effective(req'.body.fulfillment_option_id, old.fulfillment_option_id)
          IN /\ old.status \notin {COMPLETED, CANCELED}
             /\ new.fulfillment_address = address
             /\ new.fulfillment_option_id = option
             /\ new.status = (IF address # None /\ option # None
                              THEN READY_FOR_PAYMENT ELSE NOT_READY_FOR_PAYMENT)
             /\ new.session_data.status = new.status
             /\ resp'.body.status = new.status]_vars

\* An update left a session that has an address but no option not ready,
\* although create had made it ready.
C8_Witness ==
    /\ served = "adapter"
    /\ req.op = "update"
    /\ resp.status_code = 200
    /\ sessions[req.session_id].fulfillment_address # None
    /\ sessions[req.session_id].fulfillment_option_id = None
    /\ sessions[req.session_id].status = NOT_READY_FOR_PAYMENT

\* ---- C9
\* C9: the complete operation on an existing session whose status is not
\* ready_for_payment fails with 409 not_ready whatever the payment token, and
\* on an absent session with 404 session_not_found; no order is created, no
\* notification sent and no session changed.
C9_CompleteNotReady ==
    [][(Handled /\ req'.op = "complete" /\ served' = "adapter")
       => /\ req'.session_id \notin DOMAIN sessions
             => /\ IsError(resp', 404, "session_not_found")
                /\ UNCHANGED <<sessions, orders, webhooks>>
          /\ (req'.session_id \in DOMAIN sessions
                /\ sessions[req'.session_id].status # READY_FOR_PAYMENT)
             => /\ IsError(resp', 409, "not_ready")
                /\ UNCHANGED <<sessions, orders, webhooks>>]_vars

\* A complete with the declined token on a session that is not ready got
\* not_ready.
C9_Witness ==
    /\ served = "adapter"
    /\ req.op = "complete"
    /\ req.body.payment_data.token = "decline_token"
    /\ IsError(resp, 409, "not_ready")
    /\ sessions[req.session_id].status = NOT_READY_FOR_PAYMENT
    /\ orders = << >>

\* ---- C10
\* The complete operation with another token would succeed on this session.
CanComplete(session_id) ==
    \E t \in Tokens \ {"decline_token"} :
        LET out == on_complete_session(sessions, session_id, [payment_data |-> [token |-> t, provider |-> "stripe"]], NewOrderId(orders))
        IN ~out.raised /\ out.row.status = COMPLETED /\ out.order # {}

\* C10: the complete operation with the token decline_token on a session that
\* is ready_for_payment fails with 402 payment_declined; the session stays as
\* it was (ready_for_payment), no order is created and no notification sent;
\* and on the session so declined a complete with a different token succeeds.
C10_Declined ==
    /\ [][(Handled /\ req'.op = "complete" /\ served' = "adapter"
             /\ req'.session_id \in DOMAIN sessions
             /\ sessions[req'.session_id].status = READY_FOR_PAYMENT
             /\ req'.body.payment_data.token = "decline_token")
          => /\ IsError(resp', 402, "payment_declined")
             /\ UNCHANGED <<sessions, orders, webhooks>>
             /\ sessions'[req'.session_id].status = READY_FOR_PAYMENT]_vars
    /\ [](  (served = "adapter" /\ req.op = "complete" /\ resp.status_code = 402)
            => CanComplete(req.session_id))

\* A session was declined, and the next request, a complete with another
\* token, is answered 200 with the order.
C10_Witness ==
    /\ served = "adapter"
    /\ req.op = "complete"
    /\ IsError(resp, 402, "payment_declined")
    /\ sessions[req.session_id].status = READY_FOR_PAYMENT
    /\ orders = << >>
    /\ webhooks = << >>
    /\ ENABLED (\E r \in Requests("complete") :
                    /\ complete_checkout_session(r)
                    /\ r.session_id = req.session_id
                    /\ resp'.status_code = 200
                    /\ Len(orders') = 1)

\* ---- C11
\* The orders that reference a session.
OrdersOf(session_id) ==
    {i \in 1..Len(orders) : orders[i].checkout_session_id = session_id}

\* C11: with requests handled one at a time, a complete that succeeds adds
\* exactly one order, which references the session and whose total is the
\* amount of the TOTAL entry the session had at that moment, and the same step
\* sets the session's status to completed; in every state a session has an
\* order exactly when it is completed, and never more than one.
C11_OrderOnComplete ==
    /\ [][(Handled /\ req'.op = "complete" /\ served' = "adapter" /\ resp'.status_code = 200)
          => LET totals == sessions[req'.session_id].session_data.totals
                 order == orders'[Len(orders')]
             IN /\ Len(orders') = Len(orders) + 1
                /\ SubSeq(orders', 1, Len(orders)) = orders
                /\ order.checkout_session_id = req'.session_id
                /\ totals[Len(totals)].type = "total"
                /\ order.total_cents = totals[Len(totals)].amount
                /\ sessions[req'.session_id].status = READY_FOR_PAYMENT
                /\ sessions'[req'.session_id].status = COMPLETED]_vars
    /\ [](\A s \in DOMAIN sessions :
            /\ (OrdersOf(s) # {}) <=> (sessions[s].status = COMPLETED)
            /\ Cardinality(OrdersOf(s)) <= 1)
    /\ [](\A i \in 1..Len(orders) : orders[i].checkout_session_id \in DOMAIN sessions)

\* A session with a selected shipping option was completed: its order carries
\* items, tax and shipping.
C11_Witness ==
    /\ served = "adapter"
    /\ req.op = "complete"
    /\ resp.status_code = 200
    /\ Len(orders) = 1
    /\ orders[1].checkout_session_id = req.session_id
    /\ sessions[req.session_id].status = COMPLETED
    /\ sessions[req.session_id].fulfillment_option_id = "ship_std"
    /\ orders[1].total_cents = 2000 + 160 + 863

\* ---- C12
\* C12: however concurrent complete calls on one session interleave, the
\* orders that reference a session are never more than one.
C12_OneOrderPerSession ==
    \A s \in DOMAIN sessions : Cardinality(OrdersOf(s)) <= 1

\* ---- C13
\* C13: the cancel operation on a session that is not_ready_for_payment or
\* ready_for_payment answers 200 and sets the status to canceled, changing no
\* other session and no order; on a session that is canceled (a second
\* cancel) or completed it answers 405 already_terminal, and on an absent
\* session 404 session_not_found, in both cases changing nothing.
C13_Cancel ==
    [][(Handled /\ req'.op = "cancel" /\ served' = "adapter")
       => LET s == req'.session_id
          IN /\ s \notin DOMAIN sessions
                => /\ IsError(resp', 404, "session_not_found")
                   /\ UNCHANGED <<idem, sessions, orders, webhooks>>
             /\ (s \in DOMAIN sessions /\ sessions[s].status \in {COMPLETED, CANCELED})
                => /\ IsError(resp', 405, "already_terminal")
                   /\ UNCHANGED <<idem, sessions, orders, webhooks>>
             /\ (s \in DOMAIN sessions /\ sessions[s].status \in {NOT_READY_FOR_PAYMENT, READY_FOR_PAYMENT})
                => /\ resp'.status_code = 200
                   /\ resp'.body.status = CANCELED
                   /\ sessions'[s].status = CANCELED
                   /\ DOMAIN sessions' = DOMAIN sessions
                   /\ \A o \in DOMAIN sessions \ {s} : sessions'[o] = sessions[o]
                   /\ UNCHANGED <<orders, webhooks>>]_vars

\* The second of two cancel calls on a session got 405.
C13_Witness ==
    /\ served = "adapter"
    /\ req.op = "cancel"
    /\ IsError(resp, 405, "already_terminal")
    /\ sessions[req.session_id].status = CANCELED
    /\ hook_calls = 3

\* ---- C14
\* C14: with requests handled one at a time, once a session is completed or
\* canceled its row (status, items, address, option, session data with the
\* totals) never changes again; every update operation on it is answered 409
\* session_terminal, and no later complete or cancel call on it adds an order
\* or sends a notification.
C14_Terminal ==
    [][\A s \in DOMAIN sessions :
         sessions[s].status \in {COMPLETED, CANCELED}
         => /\ s \in DOMAIN sessions'
            /\ sessions'[s] = sessions[s]
            /\ (Handled /\ req'.session_id = s /\ req'.op = "update" /\ served' = "adapter")
               => IsError(resp', 409, "session_terminal")
            /\ (Handled /\ req'.session_id = s /\ req'.op \in {"update", "complete", "cancel"})
               => UNCHANGED <<sessions, orders, webhooks>>]_vars

\* An update that brings an address and an option to a completed session was
\* refused.
C14_Witness ==
    /\ served = "adapter"
    /\ req.op = "update"
    /\ req.body.fulfillment_option_id = "ship_std"
    /\ IsError(resp, 409, "session_terminal")
    /\ sessions[req.session_id].status = COMPLETED
    /\ Len(orders) = 1

\* ---- C15
\* C15: however concurrent update, complete and cancel calls on one session
\* interleave, the outcome is that of running them in some order; in
\* particular a terminal status written by complete or cancel is never
\* overwritten by an update running at the same time.
C15_TerminalKept ==
    [][\A s \in DOMAIN sessions :
         sessions[s].status \in {COMPLETED, CANCELED}
         => sessions'[s].status = sessions[s].status]_vars

\* ---- C16
\* C16: a get changes neither the sessions, the orders, the ledger nor the
\* notifications sent; when it passes the version check it returns, for an
\* existing session, 200 with the session as persisted, and for an absent id
\* 404 session_not_found.
C16_GetPure ==
    [][(Handled /\ req'.op = "get")
       => /\ UNCHANGED <<idem, sessions, orders, webhooks>>
          /\ (served' = "adapter" /\ req'.session_id \in DOMAIN sessions)
             => /\ resp'.status_code = 200
                /\ resp'.body = sessions[req'.session_id].session_data
                /\ resp'.body.id = req'.session_id
          /\ (served' = "adapter" /\ req'.session_id \notin DOMAIN sessions)
             => IsError(resp', 404, "session_not_found")]_vars

\* The second of two sessions was read.
C16_Witness ==
    /\ served = "adapter"
    /\ req.op = "get"
    /\ req.session_id = 2
    /\ resp.status_code = 200
    /\ resp.body = sessions[2].session_data
    /\ resp.body # sessions[1].session_data

\* ---- C17
\* C17: with requests handled one at a time, a get of a session that comes
\* right after an update operation on that session succeeded returns the
\* totals list, the line items and the status of the update's response.
C17_RoundTrip ==
    [][(/\ req.op = "update" /\ served = "adapter" /\ resp.status_code = 200
        /\ Handled /\ req'.op = "get" /\ served' = "adapter"
        /\ req'.session_id = req.session_id)
       => /\ resp'.status_code = 200
          /\ resp'.body.totals = resp.body.totals
          /\ resp'.body.line_items = resp.body.line_items
          /\ resp'.body.status = resp.body.status]_vars

\* A get right after the update that selected standard shipping shows the
\* shipping entry and the new total.
C17_Witness ==
    /\ nops = 3
    /\ served = "adapter"
    /\ req.op = "get"
    /\ resp.status_code = 200
    /\ resp.body.fulfillment_option_id = "ship_std"
    /\ resp.body.status = READY_FOR_PAYMENT
    /\ Len(resp.body.totals) = 5
    /\ resp.body.totals[4] = Total("fulfillment", 863)

\* ---- C18
\* t is the ceiling of base * 8/100.
IsCeilOfRate(t, base) ==
    /\ t * TAX_RATE_DEN >= base * TAX_RATE_NUM
    /\ (t - 1) * TAX_RATE_DEN < base * TAX_RATE_NUM

PricedLineItem(line_item, item) ==
    /\ line_item.item = item
    /\ line_item.base_amount = Catalog[item.id].price_cents * item.quantity
    /\ IsCeilOfRate(line_item.tax, line_item.base_amount)
    /\ line_item.subtotal = line_item.base_amount
    /\ line_item.discount = 0
    /\ line_item.total = line_item.base_amount + line_item.tax

\* C18: every persisted session, and every session a create or update
\* returned, has one line item per item, with base_amount = unit price x
\* quantity, tax = ceiling(base_amount x 8/100), subtotal = base_amount,
\* discount = 0 and total = base_amount + tax.
C18_LineItems ==
    /\ \A s \in DOMAIN sessions :
         LET items == sessions[s].items
             line_items == sessions[s].session_data.line_items
         IN /\ Len(line_items) = Len(items)
            /\ \A i \in 1..Len(items) : PricedLineItem(line_items[i], items[i])
    /\ (served = "adapter" /\ req.op \in {"create", "update"} /\ resp.status_code \in {200, 201})
       => resp.body.line_items = sessions[resp.body.id].session_data.line_items

\* The example (1000 x 2: 2000, 160, 2160) and a tax that is rounded up
\* (105 x 1: 8.4 becomes 9).
C18_Witness ==
    /\ \E s \in DOMAIN sessions :
         \E i \in 1..Len(sessions[s].session_data.line_items) :
            LET li == sessions[s].session_data.line_items[i]
            IN li.item = Item("p1", 2) /\ li.base_amount = 2000 /\ li.tax = 160 /\ li.total = 2160
    /\ \E s \in DOMAIN sessions :
         \E i \in 1..Len(sessions[s].session_data.line_items) :
            LET li == sessions[s].session_data.line_items[i]
            IN li.item = Item("p2", 1) /\ li.base_amount = 105 /\ li.tax = 9 /\ li.total = 114

\* ---- C19
\* C19: in every state the totals list of every persisted session is
\* items-base, subtotal, tax, then a fulfillment entry exactly when the cost
\* of the selected option is not zero, then total; items-base and subtotal
\* are the sum of the line items' base amounts, tax is the ceiling of 8/100 of
\* the subtotal, and the last entry, of type total, is subtotal + tax +
\* fulfillment cost.
C19_TotalsOrder ==
    \A s \in DOMAIN sessions :
        LET session_data == sessions[s].session_data
            totals == session_data.totals
            cost == FulfillmentTotal(session_data.fulfillment_option_id)
            n == Len(totals)
        IN /\ n = (IF cost # 0 THEN 5 ELSE 4)
           /\ totals[1].type = "items_base_amount"
           /\ totals[2].type = "subtotal"
           /\ totals[3].type = "tax"
           /\ totals[1].amount = SumBase(session_data.line_items)
           /\ totals[2].amount = totals[1].amount
           /\ IsCeilOfRate(totals[3].amount, totals[2].amount)
           /\ cost # 0 => totals[4] = Total("fulfillment", cost)
           /\ totals[n].type = "total"
           /\ totals[n].amount = totals[2].amount + totals[3].amount + cost

\* One session with standard shipping (five entries), one whose option names
\* no offered option (no fulfillment entry).
C19_Witness ==
    /\ \E s \in DOMAIN sessions :
         /\ sessions[s].session_data.fulfillment_option_id = "ship_std"
         /\ Len(sessions[s].session_data.totals) = 5
         /\ sessions[s].session_data.totals[5] = Total("total", 2000 + 160 + 863)
    /\ \E s \in DOMAIN sessions :
         /\ sessions[s].session_data.fulfillment_option_id \in {None, "bogus"}
         /\ Len(sessions[s].session_data.totals) = 4

\* ---- C20
\* Some item of the list names no product, or one that is not in stock.
NamesUnavailable(items) ==
    \E i \in 1..Len(items) :
        \/ items[i].id \notin DOMAIN Catalog
        \/ ~Catalog[items[i].id].in_stock

\* The items of a request: those of a create, those an update supplies.
RequestItems(r) ==
    IF r.op = "create" THEN r.body.items
    ELSE IF r.body.items = {} THEN << >>
    ELSE CHOOSE l \in r.body.items : TRUE

\* C20: a create, or an update of an existing session that is not terminal,
\* whose items name a product that does not exist or is not in stock fails
\* with 409 out_of_stock and persists nothing: no session is added or
\* changed, even when the other items of the request are available.
C20_OutOfStock ==
    [][(/\ Handled /\ served' = "adapter" /\ req'.op \in {"create", "update"}
        /\ req'.op = "update"
           => /\ req'.session_id \in DOMAIN sessions
              /\ sessions[req'.session_id].status \notin {COMPLETED, CANCELED}
        /\ NamesUnavailable(RequestItems(req')))
       => /\ IsError(resp', 409, "out_of_stock")
          /\ UNCHANGED <<sessions, orders, webhooks>>]_vars

\* An update that adds an out-of-stock product to an available one was
\* refused and the session kept its items.
C20_Witness ==
    /\ served = "adapter"
    /\ req.op = "update"
    /\ req.body.items = {<<Item("p1", 1), Item("p3", 1)>>}
    /\ IsError(resp, 409, "out_of_stock")
    /\ sessions[req.session_id].items = <<Item("p1", 2)>>
    /\ sessions[req.session_id].session_data.totals[1].amount = 2000


\* ---- C21
\* C21: on every checkout endpoint a request without an API-Version header
\* is answered 400 with code missing_api_version, and a request whose
\* API-Version is not a supported one 400 with code unsupported_api_version.
\* Violated: the ACPSellerError is raised before the handler's try block and
\* the application registers no handler for it, so the answer is a 500.
C21_VersionStatus ==
    nops > 0
    => /\ ~Truthy(req.api_version) => IsError(resp, 400, "missing_api_version")
       /\ (Truthy(req.api_version) /\ req.api_version \notin SUPPORTED_API_VERSIONS)
            => IsError(resp, 400, "unsupported_api_version")


\* ---- C22
\* The request passed the version check and, when require_auth is on, the
\* bearer check.
PastBearer(r) ==
    /\ r.api_version \in SUPPORTED_API_VERSIONS
    /\ require_auth => r.authorization \in BearerHeaders

\* C22: with a signing secret configured, a checkout request (one that got
\* as far as the signature check) whose X-OpenAI-Signature is absent or is
\* not the HMAC-SHA256 of its raw body under the secret is answered 401.
\* Violated: the ACPSellerError(401) is raised before the try block and is
\* caught by nothing, so the answer is a 500.
C22_SignatureStatus ==
    (/\ nops > 0
     /\ signature_secret # ""
     /\ PastBearer(req)
     /\ req.x_openai_signature # HmacSha256(signature_secret, req.body))
    => resp.status_code = 401


\* ---- C23
\* The request fails the version check, the bearer check (when require_auth
\* is on) or the signature check (when a secret is configured).
FailsCheck(r) ==
    \/ ~Truthy(r.api_version)
    \/ r.api_version \notin SUPPORTED_API_VERSIONS
    \/ require_auth /\ r.authorization \notin BearerHeaders
    \/ signature_secret # "" /\ r.x_openai_signature # HmacSha256(signature_secret, r.body)

\* C23: a request that fails the version, bearer or signature check is
\* answered without the ledger being consulted or the adapter invoked: the
\* session store, the orders, the notifications and the ledger are as they
\* were, whether or not its Idempotency-Key matches a stored record.
C23_ChecksFirst ==
    [][(Handled /\ FailsCheck(req'))
       => /\ served' = "rejected"
          /\ hook_calls' = hook_calls
          /\ UNCHANGED <<idem, sessions, orders, webhooks>>]_vars

\* A create whose key and payload hash match a stored record, but signed
\* under the wrong secret, was turned away instead of replayed.
C23_Witness ==
    /\ served = "rejected"
    /\ req.op = "create"
    /\ signature_secret # ""
    /\ PastBearer(req)
    /\ req.x_openai_signature = HmacSha256("other", req.body)
    /\ LedgerKey(req) \in DOMAIN idem
    /\ idem[LedgerKey(req)].payload_hash = _payload_hash(Payload(req))
    /\ resp.status_code # idem[LedgerKey(req)].status_code


\* ---- C24
\* C24: every checkout action (create, get, update, complete, cancel),
\* whether it succeeds, fails or is rejected, appends exactly one entry to
\* the action audit log, and the entries already there stay as they are.
\* Violated: no checkout handler and no adapter hook calls _log_acp_action;
\* only the search, compare and purchase-simulate endpoints write the log.
C24_AuditEveryAction ==
    [][Handled
       => /\ Len(audit') = Len(audit) + 1
          /\ SubSeq(audit', 1, Len(audit)) = audit]_vars


\* ---- C25
\* The notifications attempted so far for an order, in the order of the calls.
EventsOf(order_id) == SelectSeq(webhooks, LAMBDA e : e.payload.order_id = order_id)

\* C25: the order row and the COMPLETED status are committed in one step
\* that sends nothing; every notification is attempted in a later step, for
\* an order already committed, and that step changes neither the sessions
\* nor the orders nor the ledger whatever the delivery comes to; for each
\* order the attempts are order_created and then order_updated; and a
\* complete that made an order answers 200 after both attempts, whether they
\* were delivered or failed.
C25_Notifications ==
    /\ [][(orders' # orders)
          => /\ Len(orders') = Len(orders) + 1
             /\ sessions'[orders'[Len(orders')].checkout_session_id].status = COMPLETED
             /\ webhooks' = webhooks]_vars
    /\ [][(webhooks' # webhooks)
          => /\ Len(webhooks') = Len(webhooks) + 1
             /\ SubSeq(webhooks', 1, Len(webhooks)) = webhooks
             /\ \E i \in 1..Len(orders) :
                   /\ orders[i].id = webhooks'[Len(webhooks')].payload.order_id
                   /\ orders[i].checkout_session_id = webhooks'[Len(webhooks')].payload.checkout_session_id
                   /\ orders[i].total_cents = webhooks'[Len(webhooks')].payload.total_cents
             /\ UNCHANGED <<sessions, orders, idem>>]_vars
    /\ [](\A i \in 1..Len(orders) :
            LET evs == EventsOf(orders[i].id)
            IN /\ Len(evs) <= 2
               /\ Len(evs) >= 1 => evs[1].type = "order_created" /\ evs[1].payload.status = "created"
               /\ Len(evs) >= 2 => evs[2].type = "order_updated" /\ evs[2].payload.status = "confirmed")
    /\ [](\A t \in 1..MaxTasks :
            (tasks[t].pc = "done" /\ tasks[t].req.op = "complete" /\ tasks[t].out.order # {})
            => /\ tasks[t].resp.status_code = 200
               /\ \A o \in tasks[t].out.order :
                     /\ Len(EventsOf(o.id)) = 2
                     /\ \E i \in 1..Len(orders) : orders[i] = o)

\* A complete is about to answer 200 although both notifications of its
\* order failed: the order is there and the session is completed.
C25_Witness ==
    \E t \in 1..MaxTasks :
        /\ tasks[t].pc = "done"
        /\ tasks[t].req.op = "complete"
        /\ tasks[t].resp.status_code = 200
        /\ \E o \in tasks[t].out.order :
              /\ \E i \in 1..Len(orders) : orders[i] = o
              /\ Len(EventsOf(o.id)) = 2
              /\ \A k \in 1..2 : EventsOf(o.id)[k].delivery = "failed"
              /\ sessions[o.checkout_session_id].status = COMPLETED


\* ---- C26
\* The request in flight passed the signature check and finds no record
\* under its key, so that the handler goes on to the two constraints.
ReachesConstraints(r) ==
    /\ signature_secret # "" => r.x_openai_signature = HmacSha256(signature_secret, r.body)
    /\ ~Truthy(r.idempotency_key) \/ r.idempotency_key \notin DOMAIN psp_store

\* C26: the provider is called only for a body whose allowance.max_amount is
\* strictly positive and whose card number has at least 13 characters.  A
\* request that gets as far as the two constraints with max_amount <= 0 is
\* answered 422 invalid_amount, also when its card number is too short; one
\* with a positive amount and a card number under 13 characters is answered
\* 400 invalid_card; in both cases the provider is not called and nothing is
\* stored.  Every record in the PSP ledger is a 201 for such a body.
C26_ProviderGuard ==
    /\ [][(provider_calls' # provider_calls)
          => /\ Len(provider_calls') = Len(provider_calls) + 1
             /\ SubSeq(provider_calls', 1, Len(provider_calls)) = provider_calls
             /\ provider_calls'[Len(provider_calls')].body.allowance.max_amount > 0
             /\ Len(provider_calls'[Len(provider_calls')].body.payment_method.number) >= 13]_vars
    /\ [][\A t \in 1..MaxTasks :
            (psp_tasks[t].pc = "body" /\ psp_tasks'[t].pc = "done" /\ ReachesConstraints(psp_tasks[t].req))
            => LET body == psp_tasks[t].req.body
                   response == psp_tasks'[t].resp
               IN /\ body.allowance.max_amount <= 0
                     => /\ IsError(response, 422, "invalid_amount")
                        /\ UNCHANGED <<provider_calls, psp_store>>
                  /\ (body.allowance.max_amount > 0 /\ Len(body.payment_method.number) < 13)
                     => /\ IsError(response, 400, "invalid_card")
                        /\ UNCHANGED <<provider_calls, psp_store>>
                  /\ (body.allowance.max_amount > 0 /\ Len(body.payment_method.number) >= 13)
                     => provider_calls' # provider_calls]_vars
    /\ [](\A k \in DOMAIN psp_store :
            /\ psp_store[k].status_code = 201
            /\ psp_store[k].payload_hash.sha256.allowance.max_amount > 0
            /\ Len(psp_store[k].payload_hash.sha256.payment_method.number) >= 13)

\* After a token was issued for another request, a request with a zero
\* amount and a 12-character card number was refused for its amount.
C26_Witness ==
    \E t \in 1..MaxTasks :
        /\ psp_tasks[t].pc = "done"
        /\ psp_tasks[t].served = "refused"
        /\ psp_tasks[t].req.body = DelegatePaymentRequest(0, CardNumber(12))
        /\ IsError(psp_tasks[t].resp, 422, "invalid_amount")
        /\ Len(Issued(provider_calls)) = 1


\* ---- C27
\* C27: a request that passed the checks and whose Idempotency-Key has a
\* record with the hash of its body is answered with the stored 201 and the
\* stored body, token id included, without a call of the provider and
\* without a change of the ledger; and however the requests in flight
\* interleave, the tokens issued for one key and one body are never more
\* than one.
C27_OneToken ==
    /\ [][\A t \in 1..MaxTasks :
            LET r == psp_tasks[t].req
            IN (/\ psp_tasks[t].pc = "body" /\ psp_tasks'[t].pc = "done"
                /\ signature_secret # "" => r.x_openai_signature = HmacSha256(signature_secret, r.body)
                /\ Truthy(r.idempotency_key)
                /\ r.idempotency_key \in DOMAIN psp_store
                /\ psp_store[r.idempotency_key].payload_hash = _payload_hash(r.body))
               => /\ psp_tasks'[t].resp.status_code = 201
                  /\ psp_tasks'[t].resp.body = psp_store[r.idempotency_key].response_body
                  /\ psp_tasks'[t].resp.body.id = psp_store[r.idempotency_key].response_body.id
                  /\ UNCHANGED <<provider_calls, psp_store>>]_vars
    /\ [](\A i, j \in 1..Len(provider_calls) :
            (/\ provider_calls[i].outcome = "issued"
             /\ provider_calls[j].outcome = "issued"
             /\ Truthy(provider_calls[i].idempotency_key)
             /\ provider_calls[i].idempotency_key = provider_calls[j].idempotency_key
             /\ provider_calls[i].body = provider_calls[j].body)
            => i = j)

\* Two requests with one key and one body were in flight together: the one
\* that arrived before any token was issued got the token of the other.
C27_Witness ==
    \E t \in 1..MaxTasks :
        /\ psp_tasks[t].pc = "done"
        /\ psp_tasks[t].served = "replay"
        /\ psp_tasks[t].arrived = 0
        /\ psp_tasks[t].resp.status_code = 201
        /\ Len(provider_calls) = 1
        /\ provider_calls[1].outcome = "issued"
        /\ provider_calls[1].idempotency_key = psp_tasks[t].req.idempotency_key
        /\ provider_calls[1].body = psp_tasks[t].req.body
        /\ psp_tasks[t].resp.body.id = <<"vt", 1>>


\* ---- C28
\* C28: the response to a request (here: one with a supported API-Version,
\* so that it is answered by the ledger or the adapter) carries the
\* Idempotency-Key and the Request-Id of that same request, and does not
\* carry a header the request did not supply.
\* Violated: a replay and a conflict carry the Request-Id of the stored
\* record, that of the request which created it.
C28_EchoOwnHeaders ==
    (nops > 0 /\ req.api_version \in SUPPORTED_API_VERSIONS)
    => /\ resp.headers.idempotency_key = (IF Truthy(req.idempotency_key) THEN req.idempotency_key ELSE None)
       /\ resp.headers.request_id = (IF Truthy(req.request_id) THEN req.request_id ELSE None)


\* ---- C29
\* C29: every error response of a checkout endpoint, the rejections for a
\* missing bearer credential, a bad API-Version and a bad signature
\* included, has a body of the shape {error: {type, code, message, param}}.
\* Violated: the bearer rejection is the framework's {"detail": ...}, and the
\* version and signature rejections are the server's plain-text 500.
C29_ErrorShape ==
    (nops > 0 /\ resp.status_code >= 400)
    => /\ DOMAIN resp.body = {"error"}
       /\ DOMAIN resp.body.error = {"type", "code", "message", "param"}



\* ---- C30
\* How many of the ids have a row in the catalog, each occurrence counted.
Resolving(product_ids) ==
    Cardinality({i \in 1..Len(product_ids) : product_ids[i] \in DOMAIN Catalog})

\* C30: a compare request naming fewer than two or more than four ids
\* fails validation (422), and one of which fewer than two ids resolve is
\* answered 422, in both cases with the audit log as it was; any other is
\* answered 200 with one entry per resolving id, at least two, and adds
\* exactly one audit entry.
C30_CompareAtLeastTwo ==
    [][(Handled /\ req'.op = "compare")
       => LET product_ids == req'.product_ids
          IN /\ (Len(product_ids) < 2 \/ Len(product_ids) > 4)
                => resp' = RequestValidationError /\ audit' = audit
             /\ Resolving(product_ids) < 2
                => resp'.status_code = 422 /\ audit' = audit
             /\ resp'.status_code \in {200, 422}
             /\ resp'.status_code = 200
                => /\ Len(resp'.body.products) = Resolving(product_ids)
                   /\ Len(resp'.body.products) >= 2
                   /\ \A i \in 1..Len(resp'.body.products) : resp'.body.products[i].id \in DOMAIN Catalog
                   /\ Len(audit') = Len(audit) + 1
                   /\ SubSeq(audit', 1, Len(audit)) = audit]_vars

\* After a comparison that was logged, a request naming three ids of which
\* one resolves was refused, and the log still has its one entry.
C30_Witness ==
    /\ req.op = "compare"
    /\ req.product_ids = <<"p1", "px", "px">>
    /\ resp.status_code = 422
    /\ resp # RequestValidationError
    /\ Len(audit) = 1
    /\ audit[1].input.product_ids = <<"p1", "p3">>


\* ---- C31
RECURSIVE SumTax(_)
SumTax(line_items) ==
    IF line_items = << >> THEN 0
    ELSE Head(line_items).tax + SumTax(Tail(line_items))

\* The amount of the totals entry of the given type.
AmountOf(totals, type) ==
    LET hits == {i \in 1..Len(totals) : totals[i].type = type}
    IN IF hits = {} THEN 0 ELSE totals[CHOOSE i \in hits : TRUE].amount

\* C31: in every stored session with n line items the tax entry of the
\* totals is the ceiling of 8% of the subtotal, it is never larger than the
\* sum of the line items' taxes (each the ceiling of 8% of its base amount),
\* the two differ by at most n, and the grand total is subtotal plus that
\* session-level tax plus the fulfillment amount.
C31_TaxBound ==
    \A s \in DOMAIN sessions :
        LET data == sessions[s].session_data
            n == Len(data.line_items)
            subtotal == AmountOf(data.totals, "subtotal")
            tax == AmountOf(data.totals, "tax")
            per_line == SumTax(data.line_items)
        IN /\ 100 * tax >= 8 * subtotal /\ 100 * (tax - 1) < 8 * subtotal
           /\ \A i \in 1..n :
                 /\ 100 * data.line_items[i].tax >= 8 * data.line_items[i].base_amount
                 /\ 100 * (data.line_items[i].tax - 1) < 8 * data.line_items[i].base_amount
           /\ subtotal = SumBase(data.line_items)
           /\ tax <= per_line
           /\ per_line - tax <= n
           /\ AmountOf(data.totals, "total") = subtotal + tax + AmountOf(data.totals, "fulfillment")

\* A cart of three items whose line taxes add up to two more than the
\* session's tax.
C31_Witness ==
    \E s \in DOMAIN sessions :
        LET data == sessions[s].session_data
        IN /\ Len(data.line_items) = 3
           /\ SumTax(data.line_items) = AmountOf(data.totals, "tax") + 2


\* ---- C32
\* C32: in every stored session the fulfillment amount that enters the grand
\* total is the total of the offered option named by the session's
\* fulfillment_option_id whenever an id is recorded, and it is zero only
\* when no id is recorded.
\* Violated: an update may record an id that names no offered option; the
\* session then has a fulfillment_option_id and a fulfillment amount of zero.
C32_FulfillmentCost ==
    \A s \in DOMAIN sessions :
        LET data == sessions[s].session_data
            cost == AmountOf(data.totals, "total") - AmountOf(data.totals, "subtotal") - AmountOf(data.totals, "tax")
        IN /\ data.fulfillment_option_id # None
              => \E i \in 1..Len(_get_fulfillment_options) :
                    /\ _get_fulfillment_options[i].id = data.fulfillment_option_id
                    /\ _get_fulfillment_options[i].total = cost
           /\ cost = 0 => data.fulfillment_option_id = None

\* ---- C33
\* The grand total the pricing engine computes over the items and the option
\* of a row at the prices of the products table.
RECURSIVE FreshSubtotal(_, _)
FreshSubtotal(items, table) ==
    IF items = << >> THEN 0
    ELSE table[Head(items).id].price_cents * Head(items).quantity + FreshSubtotal(Tail(items), table)

FreshGrandTotal(row, table) ==
    LET subtotal == FreshSubtotal(row.items, table)
        offered == {i \in 1..Len(_get_fulfillment_options) : _get_fulfillment_options[i].id = row.fulfillment_option_id}
        fulfillment == IF offered = {} THEN 0 ELSE _get_fulfillment_options[CHOOSE i \in offered : TRUE].total
    IN subtotal + CeilTax(subtotal) + fulfillment

\* C33: every successful create, update, complete and cancel persists totals
\* whose grand total is the one the pricing engine computes over the row's
\* items and option at the catalog prices of that moment, and the order a
\* complete writes carries that freshly computed grand total.
C33_RecomputedOnEveryTransition ==
    [][(Handled /\ served' = "adapter" /\ resp'.status_code \in {200, 201}
        /\ req'.op \in {"create", "update", "complete", "cancel"})
       => LET row == sessions'[resp'.body.id]
          IN /\ AmountOf(row.session_data.totals, "total") = FreshGrandTotal(row, products)
             /\ req'.op = "complete"
                => orders'[Len(orders')].total_cents = FreshGrandTotal(row, products)]_vars

\* ---- C34
\* The members of a JSON object as a set: what is left of it when the order
\* of its keys is forgotten (the items array keeps its order, each item
\* forgets the order of its keys).
MembersOf(raw_body) ==
    {IF raw_body[i][1] = "items"
     THEN <<"items", [k \in 1..Len(raw_body[i][2]) |-> {raw_body[i][2][k][j] : j \in 1..Len(raw_body[i][2][k])}]>>
     ELSE raw_body[i] : i \in 1..Len(raw_body)}

SameUpToKeyOrder(a, b) == MembersOf(a) = MembersOf(b)

DifferInAValue(a, b) ==
    \E x \in MembersOf(a), y \in MembersOf(b) : x[1] = y[1] /\ x[2] # y[2]

\* C34: when a create body was stored under an Idempotency-Key and the next
\* request carries the same key, a body with the same fields and values in
\* another key order is answered as a replay of the stored response, and a
\* body that differs in a field value is answered 409 request_not_idempotent.
C34_Canonicalization ==
    [][(Handled /\ req.op = "create" /\ served = "adapter" /\ resp.status_code = 201
        /\ Keyed(req) /\ req'.op = "create" /\ req'.idempotency_key = req.idempotency_key)
       => /\ SameUpToKeyOrder(req.raw_body, req'.raw_body)
             => served' = "replay" /\ resp'.status_code = 201 /\ resp'.body = resp.body
          /\ DifferInAValue(req.raw_body, req'.raw_body)
             => served' = "conflict" /\ IsError(resp', 409, "request_not_idempotent")]_vars

\* ---- C35
\* The operation and the session id a route string of the ledger names.
RouteOp(route) ==
    CASE route[1] = "POST:/checkout_sessions" -> "create"
      [] route[1] = "POST:/checkout_sessions/" /\ route[3] = "" -> "update"
      [] route[1] = "POST:/checkout_sessions/" /\ route[3] = "/complete" -> "complete"
      [] route[1] = "POST:/checkout_sessions/" /\ route[3] = "/cancel" -> "cancel"

RouteSession(route) == route[2]

\* The ledger holds a record of the request's own operation on its own
\* session id under its Idempotency-Key.
OwnRecord(store, r) ==
    \E k \in DOMAIN store :
        /\ k[2] = r.idempotency_key
        /\ RouteOp(k[1]) = r.op
        /\ RouteSession(k[1]) = (IF r.op = "create" THEN 0 ELSE r.session_id)

\* C35: a keyed mutating request is answered from the ledger (replay or
\* conflict) exactly when the ledger holds a record of the same operation on
\* the same session id under that key; records of the same key under other
\* routes or other session ids never answer it.
C35_RouteScoped ==
    [][(Handled /\ Mutating(req') /\ Keyed(req'))
       => (served' \in {"replay", "conflict"} <=> OwnRecord(idem, req'))]_vars

\* A request reached the adapter although the ledger held a record of its
\* key under another route.
C35_Witness ==
    /\ Mutating(req) /\ Keyed(req) /\ served = "adapter"
    /\ \E k \in DOMAIN idem :
          /\ k[2] = req.idempotency_key
          /\ RouteOp(k[1]) # req.op
    /\ OwnRecord(idem, req)

C37_StatusAgrees ==
    /\ \A s \in DOMAIN sessions : sessions[s].status = sessions[s].session_data.status
    /\ (req.op = "get" /\ served = "adapter" /\ resp.status_code = 200)
       => resp.body.status = sessions[req.session_id].status

NoItems(body) == body.items \in {{}, {<< >>}}

\* C39: after a successful update, each of items, buyer, fulfillment address
\* and fulfillment option that the request leaves out (or supplies as an
\* empty items list or an empty option id) has the value that was stored
\* before, in the row and in the session returned.
C39_UpdateKeepsUnsupplied ==
    [][(Handled /\ req'.op = "update" /\ served' = "adapter" /\ resp'.status_code = 200)
       => LET before == sessions[req'.session_id]
              after == sessions'[req'.session_id]
              body == req'.body
          IN /\ NoItems(body)
                => /\ after.items = before.items
                   /\ resp'.body.line_items = before.session_data.line_items
             /\ body.buyer = None
                => /\ after.buyer = before.buyer
                   /\ resp'.body.buyer = before.session_data.buyer
             /\ body.fulfillment_address = None
                => /\ after.fulfillment_address = before.fulfillment_address
                   /\ resp'.body.fulfillment_address = before.session_data.fulfillment_address
             /\ body.fulfillment_option_id \in {None, ""}
                => /\ after.fulfillment_option_id = before.fulfillment_option_id
                   /\ resp'.body.fulfillment_option_id = before.session_data.fulfillment_option_id]_vars

\* An update that supplies no items, no address and no option (an empty option
\* id counts) succeeded on a session that has an address and a selected
\* option, and both are still stored.
C39_Witness ==
    /\ req.op = "update" /\ served = "adapter" /\ resp.status_code = 200
    /\ NoItems(req.body)
    /\ req.body.fulfillment_address = None
    /\ req.body.fulfillment_option_id \in {None, ""}
    /\ sessions[req.session_id].fulfillment_address = "A1"
    /\ sessions[req.session_id].fulfillment_option_id = "ship_std"
    /\ sessions[req.session_id].items # << >>

====
